---- MODULE Spec2Model ----
(***************************************************************************)
(* Model of the DialogFlow integration generated by                        *)
(* create-dialogflow-integration.py: the web-UI service and hook           *)
(* (DialogFlowService.ts, useDialogFlow.ts), the backend service           *)
(* (mcp-server/src/services/dialogflow.js) and the handlers of the         *)
(* integration README (handleMessage, handleChatMessage, handleIntent).    *)
(*                                                                         *)
(* Conventions.  An intent name is the tuple of its dot-separated          *)
(* segments ('account.balance' is <<"account", "balance">>), so that       *)
(* startsWith('account.') is computed, not listed.  A confidence is an     *)
(* integer number of hundredths (0.8 is 80).  A JavaScript value is a      *)
(* record: JsStr, JsNum, JsBool, JsNull, JsUndefined, JsFunction, or an    *)
(* object (a record of its properties).                                    *)
(***************************************************************************)
EXTENDS Integers, Sequences, FiniteSets, TLC

VARIABLES app, calls, turn, hook, probe, agent, run

vars == <<app, calls, turn, hook, probe, agent, run>>

(***************************************************************************)
(* JavaScript values                                                       *)
(***************************************************************************)
JsStr(s) == [str |-> s]
JsNum(n) == [num |-> n]
JsBool(b) == [bool |-> b]
JsNull == [js |-> "null"]
JsUndefined == [js |-> "undefined"]
JsFunction(name) == [function |-> name]
\* A string holding an intent name, as the tuple of its segments.
JsName(segments) == [name |-> segments]

\* ToBoolean: the falsy values are undefined, null, false, '' and 0.
Truthy(v) ==
    /\ v # JsUndefined
    /\ v # JsNull
    /\ v # JsBool(FALSE)
    /\ v # JsStr("")
    /\ v # JsName(<<>>)
    /\ v # JsNum(0)

\* a || b
JsOr(a, b) == IF Truthy(a) THEN a ELSE b

\* obj[name] and obj?.name on an object without inherited properties of
\* that name: the property when the object has it, undefined otherwise
\* (also for obj undefined or null under ?.).
Prop(obj, name) == IF name \in DOMAIN obj THEN obj[name] ELSE JsUndefined

\* The names every object literal inherits from Object.prototype.
ObjectPrototypeKeys ==
    { <<"constructor">>, <<"toString">>, <<"valueOf">>, <<"hasOwnProperty">> }

\* table[key] for a table written as an object literal: an own property,
\* else a member inherited from Object.prototype, else undefined.
Lookup(table, key) ==
    IF key \in DOMAIN table THEN table[key]
    ELSE IF key \in ObjectPrototypeKeys THEN JsFunction(key[1])
    ELSE JsUndefined

(***************************************************************************)
(* Parameter normalisation                                                 *)
(***************************************************************************)
\* An ExtractField that copies the currency sub-field without the
\* `|| 'USD'`.
ExtractField_nodefault(field) ==
    IF "stringValue" \in DOMAIN field THEN JsStr(field.stringValue)
    ELSE IF "numberValue" \in DOMAIN field THEN JsNum(field.numberValue)
    ELSE IF /\ "structValue" \in DOMAIN field
            /\ "fields" \in DOMAIN field.structValue
            /\ "amount" \in DOMAIN field.structValue.fields
         THEN LET f == field.structValue.fields
              IN  [amount |-> JsNum(f.amount.numberValue),
                   currency |-> IF "currency" \in DOMAIN f
                                THEN JsStr(f.currency.stringValue)
                                ELSE JsUndefined]
    ELSE JsUndefined

\* The value extracted from one field of the provider's Struct, undefined
\* when the field sets no key of `extracted`.
ExtractField(field) ==
    IF "stringValue" \in DOMAIN field THEN JsStr(field.stringValue)
    ELSE IF "numberValue" \in DOMAIN field THEN JsNum(field.numberValue)
    ELSE IF /\ "structValue" \in DOMAIN field
            /\ "fields" \in DOMAIN field.structValue
            /\ "amount" \in DOMAIN field.structValue.fields
         THEN LET f == field.structValue.fields
                  amount == IF "numberValue" \in DOMAIN f.amount
                            THEN JsNum(f.amount.numberValue)
                            ELSE JsUndefined
                  currency == IF /\ "currency" \in DOMAIN f
                                 /\ "stringValue" \in DOMAIN f.currency
                              THEN JsStr(f.currency.stringValue)
                              ELSE JsUndefined
              IN  [amount |-> amount, currency |-> JsOr(currency, JsStr("USD"))]
    ELSE JsUndefined

\* An Assigns that tests the scalars for truthiness instead of
\* `!== undefined`.
Assigns_truthy(field) ==
    \/ "stringValue" \in DOMAIN field /\ field.stringValue # ""
    \/ "numberValue" \in DOMAIN field /\ field.numberValue # 0
    \/ /\ "structValue" \in DOMAIN field
       /\ "fields" \in DOMAIN field.structValue
       /\ "amount" \in DOMAIN field.structValue.fields

\* Whether the forEach body assigns extracted[key] for this field.
Assigns(field) ==
    \/ "stringValue" \in DOMAIN field
    \/ "numberValue" \in DOMAIN field
    \/ /\ "structValue" \in DOMAIN field
       /\ "fields" \in DOMAIN field.structValue
       /\ "amount" \in DOMAIN field.structValue.fields

\* DialogFlowService.extractParameters
extractParameters(parameters) ==
    IF ~Truthy(parameters) THEN <<>>
    ELSE LET fields == IF "fields" \in DOMAIN parameters
                       THEN parameters.fields ELSE <<>>
             keys == {k \in DOMAIN fields : Assigns(fields[k])}
         IN  [k \in keys |-> ExtractField(fields[k])]

\* MCPDialogFlowService.extractParameters
MCP_extractParameters(parameters) ==
    IF ~Truthy(parameters) \/ "fields" \notin DOMAIN parameters THEN <<>>
    ELSE LET fields == parameters.fields
             keys == {k \in DOMAIN fields : Assigns(fields[k])}
         IN  [k \in keys |-> ExtractField(fields[k])]

(***************************************************************************)
(* The web-UI descriptor table                                             *)
(***************************************************************************)
Descriptor(requiresAuth, apiEndpoint, permission) ==
    [requiresAuth |-> JsBool(requiresAuth),
     apiEndpoint |-> apiEndpoint,
     permission |-> permission]

intentMapping ==
    (<<"auth", "login">> :>
        Descriptor(FALSE, JsStr("/api/auth/login"), JsNull)) @@
    (<<"account", "balance">> :>
        Descriptor(TRUE, JsStr("/api/accounts/balance"), JsStr("read:balance"))) @@
    (<<"transaction", "history">> :>
        Descriptor(TRUE, JsStr("/api/transactions"), JsStr("read:transactions"))) @@
    (<<"payment", "transfer">> :>
        Descriptor(TRUE, JsStr("/api/balance-transfers"), JsStr("write:transfer"))) @@
    (<<"payment", "bill">> :>
        Descriptor(TRUE, JsStr("/api/payments/bill"), JsStr("write:payment"))) @@
    (<<"card", "status">> :>
        Descriptor(TRUE, JsStr("/api/cards"), JsStr("read:cards"))) @@
    (<<"card", "block">> :>
        Descriptor(TRUE, JsStr("/api/cards/block"), JsStr("write:card"))) @@
    (<<"dispute", "create">> :>
        Descriptor(TRUE, JsStr("/api/disputes"), JsStr("write:dispute"))) @@
    (<<"fraud", "report">> :>
        Descriptor(TRUE, JsStr("/api/fraud/report"), JsStr("write:fraud"))) @@
    (<<"account", "statement">> :>
        Descriptor(TRUE, JsStr("/api/accounts/statement"), JsStr("read:statement"))) @@
    (<<"general", "greeting">> :> Descriptor(FALSE, JsNull, JsNull)) @@
    (<<"general", "help">> :> Descriptor(FALSE, JsNull, JsNull))

\* The object after `||` in mapToBankingOperation.
DefaultDescriptor == Descriptor(TRUE, JsNull, JsNull)

\* A mapToBankingOperation that keeps the descriptor of the intent the
\* hook saw last.
mapToBankingOperation_cached(intent, parameters) ==
    IF hook.lastIntent # JsNull
    THEN JsOr(Lookup(intentMapping, hook.lastIntent.name), DefaultDescriptor)
    ELSE JsOr(Lookup(intentMapping, intent), DefaultDescriptor)

\* DialogFlowService.mapToBankingOperation
mapToBankingOperation(intent, parameters) ==
    JsOr(Lookup(intentMapping, intent), DefaultDescriptor)

(***************************************************************************)
(* The backend action map                                                  *)
(***************************************************************************)
MoneyAmount(parameters) == Prop(Prop(parameters, "amount-of-money"), "amount")

MoneyCurrency(parameters) ==
    JsOr(Prop(Prop(parameters, "amount-of-money"), "currency"), JsStr("USD"))

actionMap(parameters, userId) ==
    (<<"account", "balance">> :>
        [tool |-> JsStr("get_account_balance"),
         args |-> [userId |-> userId,
                   accountType |-> Prop(parameters, "account-type"),
                   accountNumber |-> Prop(parameters, "account-number")]]) @@
    (<<"transaction", "history">> :>
        [tool |-> JsStr("get_transactions"),
         args |-> [userId |-> userId,
                   accountNumber |-> Prop(parameters, "account-number"),
                   dateRange |-> Prop(parameters, "date-period"),
                   limit |-> JsNum(20)]]) @@
    (<<"payment", "transfer">> :>
        [tool |-> JsStr("create_transfer"),
         args |-> [userId |-> userId,
                   amount |-> MoneyAmount(parameters),
                   currency |-> MoneyCurrency(parameters),
                   recipient |-> Prop(parameters, "recipient"),
                   fromAccount |-> Prop(parameters, "from-account")]]) @@
    (<<"payment", "bill">> :>
        [tool |-> JsStr("pay_bill"),
         args |-> [userId |-> userId,
                   billType |-> Prop(parameters, "bill-type"),
                   amount |-> MoneyAmount(parameters),
                   currency |-> MoneyCurrency(parameters)]]) @@
    (<<"card", "status">> :>
        [tool |-> JsStr("get_card_status"),
         args |-> [userId |-> userId,
                   cardType |-> Prop(parameters, "card-type"),
                   lastFourDigits |-> Prop(parameters, "card-number")]]) @@
    (<<"card", "block">> :>
        [tool |-> JsStr("block_card"),
         args |-> [userId |-> userId,
                   cardType |-> Prop(parameters, "card-type"),
                   lastFourDigits |-> Prop(parameters, "card-number"),
                   reason |-> JsStr("user_requested")]]) @@
    (<<"dispute", "create">> :>
        [tool |-> JsStr("create_dispute"),
         args |-> [userId |-> userId,
                   amount |-> MoneyAmount(parameters),
                   merchant |-> Prop(parameters, "merchant"),
                   reason |-> JsStr("unauthorized_transaction")]]) @@
    (<<"fraud", "report">> :>
        [tool |-> JsStr("report_fraud"),
         args |-> [userId |-> userId,
                   type |-> JsStr("account_compromise"),
                   urgent |-> JsBool(TRUE)]]) @@
    (<<"account", "statement">> :>
        [tool |-> JsStr("generate_statement"),
         args |-> [userId |-> userId,
                   accountNumber |-> Prop(parameters, "account-number"),
                   period |-> JsOr(Prop(parameters, "date-period"),
                                   JsStr("current_month"))]])

\* MCPDialogFlowService.mapToMCPAction
mapToMCPAction(intent, parameters, userId) ==
    JsOr(Lookup(actionMap(parameters, userId), intent),
         [tool |-> JsStr("unknown_intent"),
          args |-> [intent |-> JsName(intent), parameters |-> parameters,
                    userId |-> userId]])

(***************************************************************************)
(* The two adapters, from the provider's response to their return value    *)
(***************************************************************************)
\* The intent name given to a query result without intent.displayName.
UnknownIntent == <<"unknown">>

\* An intent name read without the `|| 'unknown'`: a missing displayName
\* prints as 'undefined'.
IntentNameOf_undefined(queryResult) ==
    LET displayName == Prop(Prop(queryResult, "intent"), "displayName")
    IN  IF Truthy(displayName) THEN displayName.name ELSE <<"undefined">>

\* queryResult.intent?.displayName || 'unknown'
IntentNameOf(queryResult) ==
    LET displayName == Prop(Prop(queryResult, "intent"), "displayName")
    IN  IF Truthy(displayName) THEN displayName.name ELSE UnknownIntent

\* queryResult.intentDetectionConfidence || 0
ConfidenceOf(queryResult) ==
    JsOr(Prop(queryResult, "intentDetectionConfidence"), JsNum(0)).num

\* new Error(message): an Error object has a message and nothing else.
Error(message) == [message |-> message]

\* A rejected promise or a throw, with the error object it carries.
Thrown(error) == [ok |-> FALSE, error |-> error]

Returned(value) == [ok |-> TRUE, value |-> value]

\* The catch block of DialogFlowService.detectIntent.
DetectIntentCatch(error) ==
    Thrown(Error(<<"Failed to detect intent: ", error.message>>))

\* The value DialogFlowService.detectIntent returns for a query result.
IntentResult(queryResult) ==
    LET intentName == IntentNameOf(queryResult)
        parameters == extractParameters(Prop(queryResult, "parameters"))
        bankingIntent == mapToBankingOperation(intentName, parameters)
    IN  [intent |-> intentName,
         confidence |-> ConfidenceOf(queryResult),
         parameters |-> parameters,
         fulfillmentText |->
             JsOr(Prop(queryResult, "fulfillmentText"), JsStr("")),
         requiresAuth |-> Prop(bankingIntent, "requiresAuth"),
         apiEndpoint |-> Prop(bankingIntent, "apiEndpoint"),
         permission |-> Prop(bankingIntent, "permission")]

\* A detectIntent whose catch block returns a fallback result instead of
\* throwing.
detectIntent_fallback(settled) ==
    IF settled.ok /\ Truthy(Prop(settled.value, "queryResult"))
    THEN Returned(IntentResult(settled.value.queryResult))
    ELSE Returned(IntentResult([intent |-> JsUndefined]))

\* DialogFlowService.detectIntent after the await: `settled` is the
\* outcome of sessionClient.detectIntent(request), a response or a
\* rejection.
detectIntent(settled) ==
    IF ~settled.ok THEN DetectIntentCatch(settled.error)
    ELSE LET queryResult == Prop(settled.value, "queryResult")
         IN  IF ~Truthy(queryResult)
             THEN DetectIntentCatch(
                      Error("No query result received from DialogFlow"))
             ELSE Returned(IntentResult(queryResult))

\* MCPDialogFlowService.processNaturalLanguage after the await.
processNaturalLanguage(settled, userId) ==
    IF ~settled.ok THEN Thrown(settled.error)
    ELSE LET queryResult == Prop(settled.value, "queryResult")
         IN  IF ~Truthy(queryResult)
             THEN Thrown(Error("No query result from DialogFlow"))
             ELSE LET intent == IntentNameOf(queryResult)
                      parameters ==
                          MCP_extractParameters(Prop(queryResult, "parameters"))
                  IN  Returned(
                        [intent |-> intent,
                         confidence |-> ConfidenceOf(queryResult),
                         parameters |-> parameters,
                         mcpAction |-> mapToMCPAction(intent, parameters, userId),
                         fulfillmentText |-> Prop(queryResult, "fulfillmentText")])

(***************************************************************************)
(* The response formatter                                                  *)
(***************************************************************************)
\* A text is the sequence of its parts: the pieces of a template literal
\* and the strings its interpolations convert to.  A number is in
\* hundredths (1234.5 is 123450) and prints as its whole part and the
\* digits after the point.
Decimal(whole, frac) == [whole |-> whole, frac |-> frac]

\* Number.prototype.toFixed(2): always two digits after the point.
ToFixed2(n) == Decimal(n \div 100, <<(n % 100) \div 10, n % 10>>)

\* Number::toString, as `${n}` converts a number: the shortest digits,
\* without trailing zeros and without a point for a whole number.
NumberToString(n) ==
    Decimal(n \div 100,
            IF n % 100 = 0 THEN <<>>
            ELSE IF n % 10 = 0 THEN <<(n % 100) \div 10>>
            ELSE <<(n % 100) \div 10, n % 10>>)

\* ToString(v): the string an interpolated value converts to.
JsToString(v) ==
    IF "str" \in DOMAIN v THEN v
    ELSE IF "num" \in DOMAIN v THEN NumberToString(v.num)
    ELSE IF "bool" \in DOMAIN v THEN JsStr(IF v.bool THEN "true" ELSE "false")
    ELSE IF v = JsUndefined THEN JsStr("undefined")
    ELSE IF v = JsNull THEN JsStr("null")
    ELSE JsStr("[object Object]")

\* case 'account.balance'
FormatBalance(apiResponse) ==
    IF Truthy(Prop(apiResponse, "balance"))
    THEN << JsStr("Your account balance is "), JsStr("$"),
            ToFixed2(apiResponse.balance.num) >>
    ELSE << JsStr("I can help you check your account balance. Please wait while I retrieve this information.") >>

\* case 'payment.transfer'
FormatTransfer(parameters, apiResponse) ==
    LET amount == JsOr(Prop(Prop(parameters, "amount-of-money"), "amount"),
                       Prop(parameters, "amount"))
        recipient == Prop(parameters, "recipient")
    IN  IF Truthy(Prop(apiResponse, "success"))
        THEN << JsStr("Successfully transferred "), JsStr("$"), JsToString(amount),
                JsStr(" to "), JsToString(recipient),
                JsStr(". Transaction ID: "),
                JsToString(Prop(apiResponse, "transactionId")) >>
        ELSE << JsStr("I'll help you transfer "), JsStr("$"), JsToString(amount),
                JsStr(" to "), JsToString(recipient),
                JsStr(". Please confirm this transaction.") >>

\* A case 'card.block' that names the card 'card' whatever its type.
FormatCardBlock_generic(parameters, apiResponse) ==
    IF Truthy(Prop(apiResponse, "success"))
    THEN << JsStr("Your "), JsStr("card"),
            JsStr(" has been successfully blocked for security. A replacement card will be sent to you.") >>
    ELSE << JsStr("I'll block your "), JsStr("card"),
            JsStr(" immediately for security. This action cannot be undone.") >>

\* case 'card.block'
FormatCardBlock(parameters, apiResponse) ==
    LET cardType == JsOr(Prop(parameters, "card-type"), JsStr("card"))
    IN  IF Truthy(Prop(apiResponse, "success"))
        THEN << JsStr("Your "), JsToString(cardType),
                JsStr(" has been successfully blocked for security. A replacement card will be sent to you.") >>
        ELSE << JsStr("I'll block your "), JsToString(cardType),
                JsStr(" immediately for security. This action cannot be undone.") >>

\* case 'dispute.create'
FormatDispute(apiResponse) ==
    IF Truthy(Prop(apiResponse, "disputeId"))
    THEN << JsStr("Dispute filed successfully. Reference number: "),
            JsToString(apiResponse.disputeId),
            JsStr(". We'll investigate and contact you within 5-7 business days.") >>
    ELSE << JsStr("I'll help you file a dispute for this transaction. Please provide details about the disputed charge.") >>

\* case 'fraud.report'
FormatFraud(apiResponse) ==
    IF Truthy(Prop(apiResponse, "reportId"))
    THEN << JsStr("Fraud report filed. Reference: "),
            JsToString(apiResponse.reportId),
            JsStr(". Your account has been flagged for monitoring. Please change your passwords immediately.") >>
    ELSE << JsStr("I understand you need to report fraud. This is serious - I'll immediately flag your account and start the investigation process.") >>

\* A default case that ignores the provider's fulfillment text.
FormatDefault_generic(intentResult) ==
    << JsStr("I can help you with that. Let me process your request.") >>

\* default
FormatDefault(intentResult) ==
    << JsOr(Prop(intentResult, "fulfillmentText"),
            JsStr("I can help you with that. Let me process your request.")) >>

\* DialogFlowService.formatBankingResponse
formatBankingResponse(intentResult, apiResponse) ==
    LET intent == intentResult.intent
        parameters == intentResult.parameters
    IN  CASE intent = <<"account", "balance">> -> FormatBalance(apiResponse)
          [] intent = <<"payment", "transfer">> ->
                 FormatTransfer(parameters, apiResponse)
          [] intent = <<"card", "block">> ->
                 FormatCardBlock(parameters, apiResponse)
          [] intent = <<"dispute", "create">> -> FormatDispute(apiResponse)
          [] intent = <<"fraud", "report">> -> FormatFraud(apiResponse)
          [] OTHER -> FormatDefault(intentResult)

(***************************************************************************)
(* The handlers of the integration README                                  *)
(***************************************************************************)
\* What a handler did with a turn: the call it made, if any.
Outcome(action, op) == [action |-> action, op |-> op]

NoOp == [fn |-> "none"]

\* README handleMessage after `await processMessage(message)`: `detected`
\* is what processMessage returned or threw.
handleMessage(detected, isAuthenticated) ==
    IF ~detected.ok THEN Outcome("ERROR_LOGGED", NoOp)
    ELSE LET result == detected.value
         IN  IF Truthy(result.requiresAuth) /\ ~isAuthenticated
             THEN Outcome("AUTH_REQUIRED", NoOp)
             ELSE IF Truthy(result.apiEndpoint)
             THEN Outcome("EXECUTE",
                          [fn |-> "executeAPICall", target |-> result.apiEndpoint])
             ELSE Outcome("REPLY", NoOp)

\* The threshold of README handleChatMessage (result.confidence > 0.7).
MCP_CONFIDENCE == 70

\* README handleChatMessage after `await processNaturalLanguage(...)`.
handleChatMessage(processed) ==
    IF ~processed.ok THEN Outcome("ERROR_THROWN", NoOp)
    ELSE LET result == processed.value
         IN  IF Truthy(result.mcpAction) /\ result.confidence > MCP_CONFIDENCE
             THEN Outcome("EXECUTE",
                          [fn |-> "executeMCPAction", target |-> result.mcpAction])
             ELSE Outcome("REPLY", NoOp)

\* AUTO_EXECUTE_HIGH_CONFIDENCE_INTENTS=false of the environment template.
AUTO_EXECUTE_HIGH_CONFIDENCE_INTENTS == FALSE

\* README CONFIDENCE_THRESHOLDS
HIGH_CONFIDENCE == 80
MEDIUM_CONFIDENCE == 60
LOW_CONFIDENCE == 40

\* result.intent.startsWith('account.')
StartsWithAccount(intent) == Len(intent) >= 2 /\ intent[1] = "account"

\* A handleIntent whose comparisons exclude the thresholds.
handleIntent_exclusive(result) ==
    IF result.confidence > HIGH_CONFIDENCE
    THEN IF StartsWithAccount(result.intent) \/ result.intent = <<"general", "help">>
         THEN Outcome("EXECUTE",
                      [fn |-> "executeAction", target |-> JsName(result.intent)])
         ELSE Outcome("NONE", NoOp)
    ELSE IF result.confidence > MEDIUM_CONFIDENCE
    THEN Outcome("CONFIRM", NoOp)
    ELSE Outcome("CLARIFY", NoOp)

\* README handleIntent
handleIntent(result) ==
    IF result.confidence >= HIGH_CONFIDENCE
    THEN IF StartsWithAccount(result.intent) \/ result.intent = <<"general", "help">>
         THEN Outcome("EXECUTE",
                      [fn |-> "executeAction", target |-> JsName(result.intent)])
         ELSE Outcome("NONE", NoOp)
    ELSE IF result.confidence >= MEDIUM_CONFIDENCE
    THEN Outcome("CONFIRM", NoOp)
    ELSE Outcome("CLARIFY", NoOp)

(***************************************************************************)
(* What the provider may answer                                            *)
(***************************************************************************)
\* The intent names the provider may report: the keys of the table, names
\* it does not hold ('foo.bar', 'account.close'), and a name every object
\* literal inherits ('constructor').
IntentNames ==
    DOMAIN intentMapping \cup
    { <<"foo", "bar">>, <<"account", "close">>, <<"constructor">> }

\* The intents of financial mutations (permission write:*).
StateChanging ==
    { <<"payment", "transfer">>, <<"payment", "bill">>, <<"card", "block">>,
      <<"dispute", "create">>, <<"fraud", "report">> }

\* Confidences in hundredths, 0.00 to 1.00.
ConfValues == 0..100

StringField(s) == [stringValue |-> s]

NumberField(n) == [numberValue |-> n]

StructField(fields) == [structValue |-> [fields |-> fields]]

\* A transfer of 150.00 (in cents), without a currency, to a recipient.
TransferParameters ==
    [fields |-> ("amount-of-money" :> StructField([amount |-> NumberField(15000)]))
                @@ ("recipient" :> StringField("John"))]

\* The parameter payloads of a turn: none, an empty Struct, the transfer.
RawParameters == { JsUndefined, [fields |-> <<>>], TransferParameters }

FulfillmentTexts == { JsUndefined, JsStr("Sure.") }

\* queryResult.intent for a recognised intent name.
IntentOf(n) == [displayName |-> JsName(n)]

\* The query results: every field may be missing.
QueryResults ==
    [intent : {JsUndefined} \cup {IntentOf(n) : n \in IntentNames},
     intentDetectionConfidence : {JsUndefined} \cup {JsNum(c) : c \in ConfValues},
     parameters : RawParameters,
     fulfillmentText : FulfillmentTexts]

UserIds == {JsStr("alice"), JsStr("bob")}

(***************************************************************************)
(* State                                                                   *)
(***************************************************************************)
\* The number of handler invocations that may be in flight at once.
NumCalls == 2

Calls == 1..NumCalls

Idle == [pc |-> "idle"]

NoTurn == [none |-> TRUE]

\* useState<DialogFlowState>(...)
InitialHookState ==
    [isProcessing |-> FALSE, lastIntent |-> JsNull, confidence |-> 0,
     error |-> JsNull]

NoProbe == [stage |-> "none"]

\* No Dialogflow agent and no provisioning script in the web and backend apps
NoAgent == [exists |-> FALSE]

NoRun == [script |-> "none"]

(***************************************************************************)
(* SpecRoute: one recognition result through each handler                  *)
(***************************************************************************)
ProbeInputs ==
    [stage : {"input"},
     queryResult : QueryResults,
     isAuthenticated : BOOLEAN,
     userId : UserIds]

InitRoute ==
    /\ app = "router"
    /\ calls = [c \in Calls |-> Idle]
    /\ turn = [routed |-> NoTurn, failed |-> NoTurn]
    /\ hook = InitialHookState
    /\ agent = NoAgent
    /\ run = NoRun
    /\ probe \in ProbeInputs

Routed(stage, returned, outcome) ==
    [stage |-> stage,
     queryResult |-> probe.queryResult,
     isAuthenticated |-> probe.isAuthenticated,
     userId |-> probe.userId,
     result |-> returned.value,
     outcome |-> outcome]

\* The provider's response that carries the probe's query result.
ProbeResponse == Returned([queryResult |-> probe.queryResult])

\* detectIntent, then README handleMessage.
RouteHandleMessage ==
    /\ probe.stage = "input"
    /\ LET detected == detectIntent(ProbeResponse)
       IN  probe' = Routed("handleMessage", detected,
                           handleMessage(detected, probe.isAuthenticated))
    /\ UNCHANGED <<app, calls, turn, hook, agent, run>>

\* processNaturalLanguage, then README handleChatMessage.
RouteHandleChatMessage ==
    /\ probe.stage = "input"
    /\ LET processed == processNaturalLanguage(ProbeResponse, probe.userId)
       IN  probe' = Routed("handleChatMessage", processed,
                           handleChatMessage(processed))
    /\ UNCHANGED <<app, calls, turn, hook, agent, run>>

\* detectIntent, then README handleIntent.
RouteHandleIntent ==
    /\ probe.stage = "input"
    /\ LET detected == detectIntent(ProbeResponse)
       IN  probe' = Routed("handleIntent", detected, handleIntent(detected.value))
    /\ UNCHANGED <<app, calls, turn, hook, agent, run>>

NextRoute ==
    \/ RouteHandleMessage
    \/ RouteHandleChatMessage
    \/ RouteHandleIntent

SpecRoute == InitRoute /\ [][NextRoute]_vars

(***************************************************************************)
(* SpecNormalize: one provider Struct through each extractParameters       *)
(***************************************************************************)
\* The names of the fields of a Struct under normalisation.
FieldNames == {"amount-of-money", "account-type"}

\* A money composite (sys.unit-currency): a numeric amount, with or
\* without a currency code.
MoneyFields ==
    { StructField([amount |-> NumberField(n)]) : n \in {0, 15000} } \cup
    { StructField([amount |-> NumberField(15000), currency |-> StringField(c)]) :
          c \in {"USD", "EUR"} }

\* The other kinds of a google.protobuf.Value: a composite without an
\* amount (a date period), a structValue without fields, a bool, a null,
\* a list.
OtherFields ==
    { StructField([startDate |-> StringField("2024-01-01")]),
      [structValue |-> [fields |-> JsUndefined]],
      [boolValue |-> TRUE],
      [nullValue |-> "NULL_VALUE"],
      [listValue |-> [values |-> <<>>]] }

ScalarFields ==
    { StringField("savings"), StringField(""), NumberField(0), NumberField(15000) }

FieldValues == ScalarFields \cup MoneyFields \cup OtherFields

\* queryResult.parameters: absent, or a Struct with any of the fields.
Structs ==
    { JsUndefined, JsNull } \cup
    { [fields |-> f] : f \in UNION { [S -> FieldValues] : S \in SUBSET FieldNames } }

InitNormalize ==
    /\ app = "normalizer"
    /\ calls = [c \in Calls |-> Idle]
    /\ turn = [routed |-> NoTurn, failed |-> NoTurn]
    /\ hook = InitialHookState
    /\ agent = NoAgent
    /\ run = NoRun
    /\ probe \in [stage : {"input"}, parameters : Structs]

\* DialogFlowService.extractParameters(queryResult.parameters)
NormalizeWeb ==
    /\ probe.stage = "input"
    /\ probe' = [stage |-> "extractParameters",
                 parameters |-> probe.parameters,
                 result |-> extractParameters(probe.parameters)]
    /\ UNCHANGED <<app, calls, turn, hook, agent, run>>

\* MCPDialogFlowService.extractParameters(queryResult.parameters)
NormalizeMCP ==
    /\ probe.stage = "input"
    /\ probe' = [stage |-> "MCP_extractParameters",
                 parameters |-> probe.parameters,
                 result |-> MCP_extractParameters(probe.parameters)]
    /\ UNCHANGED <<app, calls, turn, hook, agent, run>>

NextNormalize ==
    \/ NormalizeWeb
    \/ NormalizeMCP

SpecNormalize == InitNormalize /\ [][NextNormalize]_vars

(***************************************************************************)
(* SpecFormat: one recognition result and API response through             *)
(* formatBankingResponse                                                   *)
(***************************************************************************)
\* The parameter Structs of the results under formatting: none, the
\* transfer of 150.00, a transfer of 150.50 EUR, a transfer with a plain
\* amount of 25.00, and a card type (credit, debit, unfilled).
FormatStructs ==
    { [fields |-> <<>>],
      TransferParameters,
      [fields |-> ("amount-of-money" :>
                      StructField([amount |-> NumberField(15050),
                                   currency |-> StringField("EUR")]))
                  @@ ("recipient" :> StringField("John"))],
      [fields |-> ("amount" :> NumberField(2500))
                  @@ ("recipient" :> StringField("John"))] } \cup
    { [fields |-> ("card-type" :> StringField(t))] : t \in {"credit", "debit", ""} }

\* The fields of an IntentResult that formatBankingResponse reads.
FormatIntentResults ==
    [intent : IntentNames \cup {UnknownIntent},
     parameters : {extractParameters(p) : p \in FormatStructs},
     fulfillmentText : {JsUndefined, JsStr(""), JsStr("Sure.")}]

\* The apiResponse argument: omitted, null, or the object the banking API
\* returned.
ApiResponses ==
    { JsUndefined, JsNull,
      [balance |-> JsNum(123450)],
      [balance |-> JsNum(0)],
      [success |-> JsBool(TRUE), transactionId |-> JsStr("TX-1")],
      [success |-> JsBool(FALSE)],
      [disputeId |-> JsStr("D-1")],
      [reportId |-> JsStr("R-1")],
      [error |-> JsStr("not found")] }

InitFormat ==
    /\ app = "formatter"
    /\ calls = [c \in Calls |-> Idle]
    /\ turn = [routed |-> NoTurn, failed |-> NoTurn]
    /\ hook = InitialHookState
    /\ agent = NoAgent
    /\ run = NoRun
    /\ probe \in [stage : {"input"},
                  intentResult : FormatIntentResults,
                  apiResponse : ApiResponses]

\* dialogFlowService.formatBankingResponse(result, apiResponse)
Format ==
    /\ probe.stage = "input"
    /\ probe' = [stage |-> "formatBankingResponse",
                 intentResult |-> probe.intentResult,
                 apiResponse |-> probe.apiResponse,
                 text |-> formatBankingResponse(probe.intentResult,
                                                probe.apiResponse)]
    /\ UNCHANGED <<app, calls, turn, hook, agent, run>>

NextFormat == Format

SpecFormat == InitFormat /\ [][NextFormat]_vars

(***************************************************************************)
(* Spec: turns in flight in one of the two applications                    *)
(***************************************************************************)
\* What `await sessionClient.detectIntent(request)` gives a turn: a
\* response with a query result, a response without one, or a rejection.
TurnQueryResults ==
    [intent : {JsUndefined, IntentOf(<<"account", "balance">>),
               IntentOf(<<"payment", "transfer">>), IntentOf(<<"foo", "bar">>)},
     intentDetectionConfidence : {JsNum(60), JsNum(95)},
     parameters : {JsUndefined, TransferParameters},
     fulfillmentText : {JsStr("Sure.")}]

Responses ==
    {Returned([queryResult |-> q]) : q \in TurnQueryResults} \cup
    {Returned([queryResult |-> JsNull])}

\* The errors a rejected provider call carries: the status code of the
\* RPC and its message.  DEADLINE_EXCEEDED is a call that could not
\* complete, INVALID_ARGUMENT a request the provider rejected.
ProviderErrors ==
    { [code |-> "DEADLINE_EXCEEDED", message |-> "Deadline exceeded"],
      [code |-> "INVALID_ARGUMENT", message |-> "Input text not set."] }

Rejections == {Thrown(e) : e \in ProviderErrors}

\* The text of a turn (one of the README's test messages).
Messages == {"Transfer $100 to John"}

\* GOOGLE_PROJECT_ID of the environment template.
ProjectId == "enterprise-banking-chatbot"

\* The options the README passes to useDialogFlow, for the user alice.
WebConfig ==
    [projectId |-> ProjectId, sessionId |-> "user-alice", languageCode |-> "en"]

\* The conversations of the backend's callers: the sessionId and userId
\* they pass to handleChatMessage and the language of the conversation.
Callers ==
    { [sessionId |-> "user-alice", userId |-> JsStr("alice"),
       languageCode |-> "en"],
      [sessionId |-> "user-bob", userId |-> JsStr("bob"),
       languageCode |-> "es"] }

Apps == {"chatbot-ui", "mcp-server"}

Init ==
    /\ app \in Apps
    /\ calls = [c \in Calls |-> Idle]
    /\ turn = [routed |-> NoTurn, failed |-> NoTurn]
    /\ hook = InitialHookState
    /\ agent = NoAgent
    /\ run = NoRun
    /\ probe = NoProbe

\* sessionClient.projectAgentSessionPath(projectId, sessionId)
projectAgentSessionPath(projectId, sessionId) == <<projectId, sessionId>>

\* The request DialogFlowService.detectIntent sends.
WebRequest(config, message) ==
    [session |-> projectAgentSessionPath(config.projectId, config.sessionId),
     text |-> message,
     languageCode |-> config.languageCode]

\* The request MCPDialogFlowService.processNaturalLanguage sends.
MCPRequest(message, sessionId) ==
    [session |-> projectAgentSessionPath(ProjectId, sessionId),
     text |-> message,
     languageCode |-> "en"]

\* A first setState that leaves the error of the turn before in place.
HookStarted_keep(state) == [state EXCEPT !.isProcessing = TRUE]

\* The hook state after processMessage's first setState.
HookStarted(state) == [state EXCEPT !.isProcessing = TRUE, !.error = JsNull]

\* The hook state after processMessage's try or catch block.
HookAfter(state, detected) ==
    IF detected.ok
    THEN [state EXCEPT !.isProcessing = FALSE,
                       !.lastIntent = JsName(detected.value.intent),
                       !.confidence = detected.value.confidence,
                       !.error = JsNull]
    ELSE [state EXCEPT !.isProcessing = FALSE,
                       !.error = [message |-> detected.error.message]]

\* Whether two routed turns had the same inputs: handler, recognition
\* result and caller.
SameInputs(a, b) ==
    /\ a.handler = b.handler
    /\ a.settled = b.settled
    /\ a.isAuthenticated = b.isAuthenticated
    /\ a.userId = b.userId

\* An invocation that re-issues the provider request once after a failure.
AfterSettle_retry(call, returned) ==
    IF ~returned.ok /\ call.requests < 2
    THEN [call EXCEPT !.requests = @ + 1]
    ELSE Idle

\* The invocation after the provider call settled: the try block returns
\* or the catch block throws, and either ends it.
AfterSettle(call, returned) == Idle

\* The record of the turns completed so far: the last one that returned a
\* recognition result (routed) and the last one since that threw (failed).
\* `repeats`: the routed turn before it had the same inputs; `overlapped`:
\* another call was in flight when it settled.
TurnAfter(prev, c, settled, isAuthenticated, returned, outcome) ==
    IF returned.ok
    THEN LET this == [handler |-> calls[c].handler,
                      userId |-> calls[c].userId,
                      settled |-> settled,
                      isAuthenticated |-> isAuthenticated,
                      requests |-> calls[c].requests,
                      result |-> returned.value,
                      outcome |-> outcome]
         IN  [routed |-> this @@
                         [repeats |-> /\ prev.routed # NoTurn
                                      /\ SameInputs(prev.routed, this),
                          overlapped |-> \E d \in Calls \ {c} :
                                             calls[d].pc = "awaitProvider"],
              failed |-> NoTurn]
    ELSE [prev EXCEPT !.failed =
                 [handler |-> calls[c].handler,
                  settled |-> settled,
                  requests |-> calls[c].requests,
                  thrown |-> returned.error,
                  outcome |-> outcome]]

\* README handleMessage up to the await in DialogFlowService.detectIntent.
WebStart(c) ==
    /\ app = "chatbot-ui"
    /\ calls[c].pc = "idle"
    /\ \E message \in Messages :
         calls' = [calls EXCEPT ![c] =
                     [pc |-> "awaitProvider",
                      handler |-> "handleMessage",
                      userId |-> JsUndefined,
                      session |-> WebConfig,
                      requests |-> 1,
                      request |-> WebRequest(WebConfig, message)]]
    /\ hook' = HookStarted(hook)
    /\ UNCHANGED <<app, turn, probe, agent, run>>

\* From the settling of the provider call to the end of handleMessage.
WebSettle(c, settled) ==
    /\ app = "chatbot-ui"
    /\ calls[c].pc = "awaitProvider"
    /\ \E isAuthenticated \in BOOLEAN :
         LET detected == detectIntent(settled)
             outcome == handleMessage(detected, isAuthenticated)
         IN  /\ hook' = HookAfter(hook, detected)
             /\ turn' = TurnAfter(turn, c, settled, isAuthenticated,
                                  detected, outcome)
             /\ calls' = [calls EXCEPT ![c] = AfterSettle(calls[c], detected)]
    /\ UNCHANGED <<app, probe, agent, run>>

WebResolve(c) == \E settled \in Responses : WebSettle(c, settled)

WebReject(c) == \E settled \in Rejections : WebSettle(c, settled)

\* README handleChatMessage up to the await in processNaturalLanguage.
MCPStart(c) ==
    /\ app = "mcp-server"
    /\ calls[c].pc = "idle"
    /\ \E message \in Messages, caller \in Callers :
         calls' = [calls EXCEPT ![c] =
                     [pc |-> "awaitProvider",
                      handler |-> "handleChatMessage",
                      userId |-> caller.userId,
                      session |-> caller,
                      requests |-> 1,
                      request |-> MCPRequest(message, caller.sessionId)]]
    /\ UNCHANGED <<app, turn, hook, probe, agent, run>>

\* A userId kept in a field of the shared service: the resumed call reads
\* what another call in flight stored there.
CallUserId_shared(c) ==
    LET others == {d \in Calls \ {c} : calls[d].pc = "awaitProvider"}
    IN  IF others = {} THEN calls[c].userId
        ELSE calls[CHOOSE d \in others : TRUE].userId

\* The userId argument of the invocation that call c resumes.
CallUserId(c) == calls[c].userId

\* From the settling of the provider call to the end of handleChatMessage.
MCPSettle(c, settled) ==
    /\ app = "mcp-server"
    /\ calls[c].pc = "awaitProvider"
    /\ LET processed == processNaturalLanguage(settled, CallUserId(c))
           outcome == handleChatMessage(processed)
       IN  /\ turn' = TurnAfter(turn, c, settled, FALSE, processed, outcome)
           /\ calls' = [calls EXCEPT ![c] = AfterSettle(calls[c], processed)]
    /\ UNCHANGED <<app, hook, probe, agent, run>>

MCPResolve(c) == \E settled \in Responses : MCPSettle(c, settled)

MCPReject(c) == \E settled \in Rejections : MCPSettle(c, settled)

Next ==
    \E c \in Calls :
        \/ WebStart(c)
        \/ WebResolve(c)
        \/ WebReject(c)
        \/ MCPStart(c)
        \/ MCPResolve(c)
        \/ MCPReject(c)

Spec == Init /\ [][Next]_vars

(***************************************************************************)
(* Properties of the routing decision (SpecRoute)                          *)
(***************************************************************************)
ProbeDone == probe.stage \in {"handleMessage", "handleChatMessage", "handleIntent"}

\* The descriptor mapToBankingOperation gives the probe's intent.
ProbeDescriptor ==
    mapToBankingOperation(IntentNameOf(probe.queryResult),
                          extractParameters(probe.queryResult.parameters))

WritePermissions ==
    { JsStr("write:transfer"), JsStr("write:payment"), JsStr("write:card"),
      JsStr("write:dispute"), JsStr("write:fraud") }

\* The tier of a confidence: high from 0.8, medium from 0.6, low below.
Tier(c) ==
    IF c >= 80 THEN "HIGH"
    ELSE IF c >= 60 THEN "MEDIUM"
    ELSE "LOW"

\* C1: a state-changing intent (payment.transfer, payment.bill, card.block,
\* dispute.create, fraud.report) is never executed without confirmation,
\* whatever the confidence, in either integration.
C1_StateChangingNeverExecuted ==
    (ProbeDone /\ probe.result.intent \in StateChanging)
        => probe.outcome.action # "EXECUTE"

\* C2: an intent name that is not a key of the table resolves to the
\* default descriptor {requiresAuth: true, apiEndpoint: null, permission:
\* null} and no operation is executed for it.
C2_UnknownIntentFailsClosed ==
    (ProbeDone /\ probe.result.intent \notin DOMAIN intentMapping)
        => /\ ProbeDescriptor = DefaultDescriptor
           /\ probe.outcome.action # "EXECUTE"

\* C3: when the action is not CLARIFY (confidence at least medium), the
\* descriptor requires authentication and the caller is not authenticated,
\* the turn ends with AuthRequired and attempts no operation, in both
\* integrations.
C3_AuthRequiredBeforeOperation ==
    (/\ ProbeDone
     /\ Tier(probe.result.confidence) # "LOW"
     /\ Prop(ProbeDescriptor, "requiresAuth") = JsBool(TRUE)
     /\ ~probe.isAuthenticated)
        => /\ probe.outcome.action = "AUTH_REQUIRED"
           /\ probe.outcome.op = NoOp

\* handleIntent classifies by the three tiers, boundaries inclusive.
HandleIntentByTier ==
    probe.stage = "handleIntent" =>
        CASE Tier(probe.result.confidence) = "HIGH" ->
                 probe.outcome.action \in {"EXECUTE", "NONE"}
          [] Tier(probe.result.confidence) = "MEDIUM" ->
                 probe.outcome.action = "CONFIRM"
          [] Tier(probe.result.confidence) = "LOW" ->
                 probe.outcome.action = "CLARIFY"

C5_HighConfidenceWriteConfirms ==
    (/\ probe.stage = "handleIntent"
     /\ Prop(ProbeDescriptor, "requiresAuth") = JsBool(TRUE)
     /\ Prop(ProbeDescriptor, "permission") \in WritePermissions
     /\ Tier(probe.result.confidence) = "HIGH")
        => probe.outcome.action = "CONFIRM"

\* C6: with autoExecuteHighConfidenceIntents false no decision is
\* AUTO_EXECUTE, for any intent and any confidence.
C6_KillSwitchStopsExecution ==
    (ProbeDone /\ ~AUTO_EXECUTE_HIGH_CONFIDENCE_INTENTS)
        => probe.outcome.action # "EXECUTE"

\* C7: the descriptor lookup is total: each key of the table resolves to
\* its own entry and every other name to the default descriptor.
C7_LookupTotal ==
    probe.stage = "handleMessage" =>
        LET intent == probe.result.intent
            found == [requiresAuth |-> probe.result.requiresAuth,
                      apiEndpoint |-> probe.result.apiEndpoint,
                      permission |-> probe.result.permission]
        IN  found = IF intent \in DOMAIN intentMapping
                    THEN intentMapping[intent]
                    ELSE DefaultDescriptor

(***************************************************************************)
(* Properties of the turns (Spec)                                          *)
(***************************************************************************)
\* C8: the routing of a turn depends only on its inputs: a routed turn
\* with the same handler, recognition result and caller as the routed turn
\* before it, whatever happened in between, gets the same result
\* (descriptor or action, normalized parameters) and the same outcome.
C8_SameInputsSameRouting ==
    [][(/\ turn.routed # NoTurn
        /\ turn'.routed # NoTurn
        /\ SameInputs(turn.routed, turn'.routed))
           => /\ turn'.routed.result = turn.routed.result
              /\ turn'.routed.outcome = turn.routed.outcome]_vars

C8_Witness ==
    /\ turn.routed # NoTurn
    /\ turn.routed.repeats
    /\ turn.routed.result.intent = <<"foo", "bar">>

\* What a routed turn gives when it is processed alone, in one step, from
\* its own inputs.
Alone(r) ==
    IF r.handler = "handleMessage"
    THEN LET detected == detectIntent(r.settled)
         IN  [result |-> detected.value,
              outcome |-> handleMessage(detected, r.isAuthenticated)]
    ELSE LET processed == processNaturalLanguage(r.settled, r.userId)
         IN  [result |-> processed.value,
              outcome |-> handleChatMessage(processed)]

\* C9: a turn that settles while other calls are in flight gets the
\* result it gets when processed alone, and a step of one call changes no
\* other call's locals.
C9_ConcurrentTurnsIndependent ==
    /\ [](turn.routed # NoTurn =>
            /\ turn.routed.result = Alone(turn.routed).result
            /\ turn.routed.outcome = Alone(turn.routed).outcome)
    /\ [][Cardinality({d \in Calls : calls'[d] # calls[d]}) <= 1]_vars

C9_Witness ==
    /\ app = "mcp-server"
    /\ turn.routed # NoTurn
    /\ turn.routed.overlapped
    /\ turn.routed.outcome.action = "EXECUTE"
    /\ \E d \in Calls : /\ calls[d].pc = "awaitProvider"
                        /\ calls[d].userId # turn.routed.userId

\* C10: a turn whose provider call failed (a rejection, a deadline
\* exceeded, a response without a query result) produces no routing
\* decision and executes no operation; only a turn whose provider call
\* returned a query result is routed.
C10_FailedTurnAbandoned ==
    /\ turn.routed # NoTurn =>
           /\ turn.routed.settled.ok
           /\ Truthy(turn.routed.settled.value.queryResult)
    /\ turn.failed # NoTurn =>
           /\ turn.failed.outcome.action \in {"ERROR_LOGGED", "ERROR_THROWN"}
           /\ turn.failed.outcome.op = NoOp

C10_Witness ==
    /\ turn.failed # NoTurn
    /\ ~turn.failed.settled.ok
    /\ turn.failed.settled.error.code = "DEADLINE_EXCEEDED"
    /\ turn.routed # NoTurn
    /\ turn.routed.outcome.action = "EXECUTE"

\* C11: each invocation of detectIntent or processNaturalLanguage issues
\* exactly one request to the provider, whether it succeeds or fails: an
\* invocation in flight has issued one request, a settled provider call
\* ends the invocation (it is never re-issued), and every completed turn,
\* routed or failed, issued one request.
C11_OneRequestPerInvocation ==
    /\ [](\A c \in Calls :
             calls[c].pc = "awaitProvider" => calls[c].requests = 1)
    /\ [](turn.routed # NoTurn => turn.routed.requests = 1)
    /\ [](turn.failed # NoTurn => turn.failed.requests = 1)
    /\ [][\A c \in Calls :
             (calls[c].pc = "awaitProvider" /\ calls'[c] # calls[c])
                 => calls'[c].pc = "idle"]_vars

C11_Witness ==
    /\ turn.failed # NoTurn
    /\ ~turn.failed.settled.ok
    /\ turn.failed.requests = 1
    /\ \A c \in Calls : calls[c].pc = "idle"

\* C12: every failure of the provider call reaches the caller as a failure
\* that carries the kind of the provider's error (its status code) and a
\* message, and no recognition result is returned for a failed call.
C12_FailureCarriesKindAndMessage ==
    /\ turn.routed # NoTurn => turn.routed.settled.ok
    /\ (turn.failed # NoTurn /\ ~turn.failed.settled.ok) =>
           /\ "message" \in DOMAIN turn.failed.thrown
           /\ "code" \in DOMAIN turn.failed.thrown
           /\ turn.failed.thrown.code = turn.failed.settled.error.code

\* C20: the request of a turn is addressed to the session path of
\* (projectId, session.sessionId) and carries session.languageCode, for
\* the session passed in for that turn.
C20_RequestBuiltFromSession ==
    \A c \in Calls :
        calls[c].pc = "awaitProvider" =>
            /\ calls[c].request.session =
                   <<ProjectId, calls[c].session.sessionId>>
            /\ calls[c].request.languageCode = calls[c].session.languageCode

\* C13 as claimed: a query result without an intent field makes the
\* adapter fail, so no turn is routed from such a query result.
C13_MissingIntentFails ==
    turn.routed # NoTurn =>
        turn.routed.settled.value.queryResult.intent # JsUndefined

\* C13 as amended: a query result without an intent field is returned as
\* a recognition result named 'unknown' (the default descriptor in the web
\* UI, the unknown_intent action in the backend); the only response that
\* makes the adapter fail is one without a query result.
C13_MissingIntentIsUnknown ==
    /\ (/\ turn.routed # NoTurn
        /\ turn.routed.settled.value.queryResult.intent = JsUndefined) =>
           /\ turn.routed.result.intent = <<"unknown">>
           /\ turn.routed.handler = "handleMessage" =>
                  /\ turn.routed.result.requiresAuth = JsBool(TRUE)
                  /\ turn.routed.result.apiEndpoint = JsNull
                  /\ turn.routed.result.permission = JsNull
           /\ turn.routed.handler = "handleChatMessage" =>
                  turn.routed.result.mcpAction.tool = JsStr("unknown_intent")
    /\ (turn.failed # NoTurn /\ turn.failed.settled.ok) =>
           ~Truthy(turn.failed.settled.value.queryResult)

C13_Witness ==
    /\ turn.routed # NoTurn
    /\ turn.routed.settled.value.queryResult.intent = JsUndefined
    /\ turn.failed # NoTurn
    /\ turn.failed.settled.ok

(***************************************************************************)
(* Properties of the normaliser (SpecNormalize)                            *)
(***************************************************************************)
Normalized == probe.stage \in {"extractParameters", "MCP_extractParameters"}

\* The fields of the Struct under normalisation (none when it is absent).
ProbeFields ==
    IF probe.parameters \in {JsUndefined, JsNull} THEN <<>>
    ELSE probe.parameters.fields

\* Whether a field is a composite with an amount sub-field.
HasAmount(field) ==
    /\ "structValue" \in DOMAIN field
    /\ "fields" \in DOMAIN field.structValue
    /\ "amount" \in DOMAIN field.structValue.fields

C15_NormalizeIsPermissive ==
    Normalized =>
        /\ DOMAIN probe.result \subseteq DOMAIN ProbeFields
        /\ DOMAIN ProbeFields = {} => DOMAIN probe.result = {}
        /\ \A k \in DOMAIN ProbeFields :
               LET field == ProbeFields[k]
               IN  /\ "stringValue" \in DOMAIN field =>
                          /\ k \in DOMAIN probe.result
                          /\ probe.result[k] = JsStr(field.stringValue)
                   /\ "numberValue" \in DOMAIN field =>
                          /\ k \in DOMAIN probe.result
                          /\ probe.result[k] = JsNum(field.numberValue)
                   /\ field \in OtherFields => k \notin DOMAIN probe.result

C15_Witness ==
    /\ probe.stage = "extractParameters"
    /\ DOMAIN ProbeFields = FieldNames
    /\ ProbeFields["account-type"] = StringField("")
    /\ ProbeFields["amount-of-money"] \in OtherFields
    /\ DOMAIN probe.result = {"account-type"}

(***************************************************************************)
(* Properties of the formatter (SpecFormat)                                *)
(***************************************************************************)
Formatted == probe.stage = "formatBankingResponse"

\* The intents with a template of their own.
Templated ==
    { <<"account", "balance">>, <<"payment", "transfer">>, <<"card", "block">>,
      <<"dispute", "create">>, <<"fraud", "report">> }

\* Whether an apiResult was passed.
Supplied == probe.apiResponse \notin {JsUndefined, JsNull}

\* How the result-present text of each template begins.
ResultOpening(intent) ==
    CASE intent = <<"account", "balance">> -> JsStr("Your account balance is ")
      [] intent = <<"payment", "transfer">> -> JsStr("Successfully transferred ")
      [] intent = <<"card", "block">> -> JsStr("Your ")
      [] intent = <<"dispute", "create">> ->
             JsStr("Dispute filed successfully. Reference number: ")
      [] intent = <<"fraud", "report">> -> JsStr("Fraud report filed. Reference: ")

\* C16: for the five intents with a template, the result-present text is
\* rendered whenever an apiResult is supplied, whatever it holds, and the
\* acknowledgment only when it is absent.
C16_ResultPresentWhenSupplied ==
    (Formatted /\ probe.intentResult.intent \in Templated) =>
        (Supplied <=> probe.text[1] = ResultOpening(probe.intentResult.intent))

\* An amount of hundredths with exactly two digits after the point.
TwoDecimals(n) == [whole |-> n \div 100, frac |-> <<(n % 100) \div 10, n % 10>>]

\* The marker of a currency code: "$" for USD, else the code itself.
Marker(code) == IF code = JsStr("USD") THEN JsStr("$") ELSE code

\* C17: every money value in a formatted text has two decimal places and
\* the marker of its currency: the balance as "$" and two decimals
\* (123450 hundredths gives "Your account balance is $1234.50"), and the
\* amount of both transfer templates as the marker of the money value's
\* currency and two decimals.
C17_MoneyTwoDecimalsAndMarker ==
    Formatted =>
        /\ (/\ probe.intentResult.intent = <<"account", "balance">>
            /\ probe.text[1] = JsStr("Your account balance is ")) =>
               probe.text = << JsStr("Your account balance is "), JsStr("$"),
                               TwoDecimals(probe.apiResponse.balance.num) >>
        /\ (/\ probe.intentResult.intent = <<"payment", "transfer">>
            /\ "amount-of-money" \in DOMAIN probe.intentResult.parameters) =>
               LET money == probe.intentResult.parameters["amount-of-money"]
               IN  SubSeq(probe.text, 2, 3) =
                       << Marker(money.currency), TwoDecimals(money.amount.num) >>

\* C18: for an intent without a template the text is the recognition
\* result's fulfillmentText when that is a non-empty string and the
\* generic acknowledgment when it is empty or missing, with or without an
\* apiResult.
C18_FallbackToFulfillmentText ==
    (Formatted /\ probe.intentResult.intent \notin Templated) =>
        probe.text =
            IF probe.intentResult.fulfillmentText \in {JsUndefined, JsStr("")}
            THEN << JsStr("I can help you with that. Let me process your request.") >>
            ELSE << probe.intentResult.fulfillmentText >>

C18_Witness ==
    /\ Formatted
    /\ probe.intentResult.intent = <<"card", "status">>
    /\ probe.intentResult.fulfillmentText = JsStr("Sure.")
    /\ Supplied
    /\ probe.text = << JsStr("Sure.") >>

\* C19: for card.block without an apiResult the text contains the value of
\* the card-type parameter, whatever the value, and ends by stating that
\* the action cannot be undone.
C19_CardBlockAcknowledgment ==
    (/\ Formatted
     /\ probe.intentResult.intent = <<"card", "block">>
     /\ ~Supplied
     /\ "card-type" \in DOMAIN probe.intentResult.parameters) =>
        LET cardType == probe.intentResult.parameters["card-type"]
        IN  /\ \/ cardType = JsStr("")
               \/ \E i \in DOMAIN probe.text : probe.text[i] = cardType
            /\ probe.text[Len(probe.text)] =
                   JsStr(" immediately for security. This action cannot be undone.")

C19_Witness ==
    /\ Formatted
    /\ probe.intentResult.intent = <<"card", "block">>
    /\ probe.apiResponse = JsNull
    /\ Prop(probe.intentResult.parameters, "card-type") = JsStr("credit")
    /\ probe.text[2] = JsStr("credit")

(***************************************************************************)
(* Properties of the operation handed to the caller, of the hook state     *)
(* and of the two tables                                                   *)
(***************************************************************************)
\* C21: for every intent name, in the table or not, the action that
\* processNaturalLanguage hands to the caller has arguments that carry the
\* userId of the turn, and an action for a name outside the table carries
\* the turn's normalized parameters.
C21_ActionCarriesUserId ==
    probe.stage = "handleChatMessage" =>
        LET action == probe.result.mcpAction
        IN  /\ "args" \in DOMAIN action
            /\ action.args.userId = probe.userId
            /\ action.tool = JsStr("unknown_intent") =>
                   action.args.parameters = probe.result.parameters

\* C22: a failure is scoped to its turn: every step in which a
\* processMessage call starts leaves the hook without error indication,
\* and a turn routed while a failed turn is on record gets the result and
\* the outcome it gets when processed alone.
C22_FailureScopedToTurn ==
    /\ [][(\E c \in Calls : /\ app = "chatbot-ui"
                            /\ calls[c].pc = "idle"
                            /\ calls'[c].pc = "awaitProvider")
              => hook'.error = JsNull]_vars
    /\ [][(/\ turn.failed # NoTurn
           /\ turn'.routed # NoTurn
           /\ turn'.failed = NoTurn)
              => /\ turn'.routed.result = Alone(turn'.routed).result
                 /\ turn'.routed.outcome = Alone(turn'.routed).outcome]_vars

C22_Witness ==
    /\ app = "chatbot-ui"
    /\ turn.failed # NoTurn
    /\ ~turn.failed.settled.ok
    /\ hook.error = JsNull
    /\ hook.isProcessing
    /\ Cardinality({c \in Calls : calls[c].pc = "awaitProvider"}) = 1

\* C23: in the hook isProcessing is true exactly in the states in which at
\* least one processMessage call is waiting for the provider.
C23_IsProcessingWhileInFlight ==
    app = "chatbot-ui" =>
        (hook.isProcessing <=> \E c \in Calls : calls[c].pc = "awaitProvider")

\* C24: an intent name has a non-null apiEndpoint in the web-UI table
\* exactly when mapToMCPAction gives it a tool other than unknown_intent.
C24_TablesAgreeOnActionable ==
    ProbeDone =>
        LET intent == probe.result.intent
            parameters == probe.result.parameters
        IN  Truthy(Prop(mapToBankingOperation(intent, parameters), "apiEndpoint"))
                <=> Prop(mapToMCPAction(intent, parameters, probe.userId), "tool")
                        # JsStr("unknown_intent")

(***************************************************************************)
(* Provisioning scripts: the provider's answers                            *)
(*                                                                         *)
(* A provider call either answers or raises; str(e) of the exception is a  *)
(* tuple of words.  The agent is what the provider stores: whether it      *)
(* exists and the display names of its intents.                            *)
(***************************************************************************)
Answered == [raised |-> FALSE]

Raised(message) == [raised |-> TRUE, message |-> message]

NotFoundError == <<"404", "NOT_FOUND", "agent">>

AlreadyExistsError == <<"409", "Intent", "already", "exists">>

PermissionDenied == <<"403", "PERMISSION_DENIED">>

InvalidKeyFile == <<"Invalid", "key", "file">>

\* words in str(e)
Contains(text, words) ==
    \E i \in 1..Len(text) :
        /\ i + Len(words) - 1 <= Len(text)
        /\ SubSeq(text, i, i + Len(words) - 1) = words

\* str.lower()
Lower(text) ==
    [i \in 1..Len(text) |->
        CASE text[i] = "Intent" -> "intent"
          [] text[i] = "NOT_FOUND" -> "not_found"
          [] text[i] = "PERMISSION_DENIED" -> "permission_denied"
          [] text[i] = "Invalid" -> "invalid"
          [] OTHER -> text[i]]

Range(list) == { list[i] : i \in 1..Len(list) }

\* intents_client.create_intent: an intent is created only in an agent that
\* exists and has no intent of that display name
CreateIntentAnswers(stored, display_name) ==
    { Raised(NotFoundError), Raised(PermissionDenied) }
        \cup (IF stored.exists /\ display_name \in stored.intents
              THEN { Raised(AlreadyExistsError) } ELSE {})
        \cup (IF stored.exists /\ display_name \notin stored.intents
              THEN { Answered } ELSE {})

\* intents_client.list_intents: the listing of an agent that exists
ListIntentsAnswers(stored) ==
    { Raised(NotFoundError), Raised(PermissionDenied) }
        \cup (IF stored.exists THEN { Answered } ELSE {})

\* agents_client.set_agent
SetAgentAnswers == { Answered, Raised(PermissionDenied) }

\* service_account.Credentials.from_service_account_file
LoadCredentialsAnswers == { Answered, Raised(InvalidKeyFile) }

AfterCreate(stored, display_name, answer) ==
    IF answer.raised THEN stored
    ELSE [stored EXCEPT !.intents = @ \cup {display_name}]

(***************************************************************************)
(* create-agent-programmatic.py: create_agent_and_intents                  *)
(***************************************************************************)
intents_to_create ==
    <<"check.balance", "transfer.money", "view.transactions", "block.card",
      "check.loan.status", "welcome", "help">>

\* sys.getrecursionlimit(): the frames create_agent_and_intents may nest
RecursionLimit == 3

\* The agents the script may find
CreateAgents ==
    { [exists |-> FALSE, intents |-> {}],
      [exists |-> TRUE, intents |-> {}],
      [exists |-> TRUE, intents |-> {"welcome", "help"}],
      [exists |-> TRUE, intents |-> Range(intents_to_create)] }

InitCreate ==
    /\ app = "create-agent-programmatic"
    /\ calls = [c \in Calls |-> Idle]
    /\ turn = [routed |-> NoTurn, failed |-> NoTurn]
    /\ hook = InitialHookState
    /\ probe = NoProbe
    /\ agent \in CreateAgents
    /\ \E credentials \in BOOLEAN :
          run = [script |-> "create-agent-programmatic", pc |-> "start",
                 credentials |-> credentials, depth |-> 0, index |-> 1,
                 created_count |-> 0, failed |-> FALSE, error |-> <<>>,
                 result |-> "None", status |-> -1]

Return(frame, result) == [frame EXCEPT !.pc = "returned", !.result = result]

Except(frame, e) == [frame EXCEPT !.pc = "except", !.error = e]

\* return create_agent_and_intents(): a new frame, from the first line
Retry_sameframe(frame) ==
    [frame EXCEPT !.pc = "start", !.index = 1, !.created_count = 0,
                  !.failed = FALSE, !.error = <<>>]

Retry(frame) ==
    [frame EXCEPT !.pc = "start", !.depth = @ + 1, !.index = 1,
                  !.created_count = 0, !.failed = FALSE, !.error = <<>>]

\* if not os.path.exists(credentials_path): sys.exit(1)
CheckCredentials ==
    /\ run.script = "create-agent-programmatic"
    /\ run.pc = "start"
    /\ run' = IF run.credentials
              THEN [run EXCEPT !.pc = "load"]
              ELSE [run EXCEPT !.pc = "exited", !.status = 1]
    /\ UNCHANGED <<app, calls, turn, hook, probe, agent>>

\* Load credentials, create the intents client
LoadCredentials ==
    /\ run.script = "create-agent-programmatic"
    /\ run.pc = "load"
    /\ \E answer \in LoadCredentialsAnswers :
          run' = IF answer.raised
                 THEN Except(run, answer.message)
                 ELSE [run EXCEPT !.pc = "create"]
    /\ UNCHANGED <<app, calls, turn, hook, probe, agent>>

\* One pass of  for intent_data in intents_to_create  with its own
\* try / except Exception
CreateIntent ==
    /\ run.script = "create-agent-programmatic"
    /\ run.pc = "create"
    /\ LET display_name == intents_to_create[run.index]
           last == run.index = Len(intents_to_create)
       IN  \E answer \in CreateIntentAnswers(agent, display_name) :
              /\ agent' = AfterCreate(agent, display_name, answer)
              /\ run' = [run EXCEPT
                    !.created_count = IF answer.raised THEN @ ELSE @ + 1,
                    !.failed =
                        \/ @
                        \/ /\ answer.raised
                           /\ ~Contains(Lower(answer.message),
                                        <<"already", "exists">>),
                    !.index = IF last THEN @ ELSE @ + 1,
                    !.pc = IF last THEN "verify" ELSE "create"]
    /\ UNCHANGED <<app, calls, turn, hook, probe>>

\* List all intents to verify, print that the agent is operational,
\* return True
VerifyIntents ==
    /\ run.script = "create-agent-programmatic"
    /\ run.pc = "verify"
    /\ \E answer \in ListIntentsAnswers(agent) :
          run' = IF answer.raised
                 THEN Except(run, answer.message)
                 ELSE Return(run, "True")
    /\ UNCHANGED <<app, calls, turn, hook, probe, agent>>

\* except Exception as e: set the agent and retry on NOT_FOUND, else
\* return False.  A call beyond the recursion limit raises RecursionError,
\* which except Exception as agent_error turns into False.
HandleError ==
    /\ run.script = "create-agent-programmatic"
    /\ run.pc = "except"
    /\ IF \/ Contains(run.error, <<"NOT_FOUND">>)
          \/ Contains(run.error, <<"Agent", "not", "found">>)
       THEN \E answer \in SetAgentAnswers :
               IF answer.raised
               THEN /\ run' = Return(run, "False")
                    /\ UNCHANGED agent
               ELSE /\ agent' = [agent EXCEPT !.exists = TRUE]
                    /\ run' = IF run.depth < RecursionLimit
                              THEN Retry(run)
                              ELSE Return(run, "False")
       ELSE /\ run' = Return(run, "False")
            /\ UNCHANGED agent
    /\ UNCHANGED <<app, calls, turn, hook, probe>>

\* success = create_agent_and_intents(); sys.exit(0 if success else 1)
ExitCreate ==
    /\ run.script = "create-agent-programmatic"
    /\ run.pc = "returned"
    /\ run' = [run EXCEPT !.pc = "exited",
                          !.status = IF run.result = "True" THEN 0 ELSE 1]
    /\ UNCHANGED <<app, calls, turn, hook, probe, agent>>

NextCreate ==
    \/ CheckCredentials
    \/ LoadCredentials
    \/ CreateIntent
    \/ VerifyIntents
    \/ HandleError
    \/ ExitCreate

SpecCreate == InitCreate /\ [][NextCreate]_vars

\* The script is one sequential process: its next statement is executed
FairSpecCreate == SpecCreate /\ WF_vars(NextCreate)

\* C25: a provisioning script reports success only if every intent of its
\* list is in the agent at the end of the run, and a create call that failed
\* for a reason other than "already exists" makes the run report failure.
C25_SuccessOnlyIfAllPresent ==
    (run.script = "create-agent-programmatic" /\ run.pc \in {"returned", "exited"}) =>
        /\ (run.result = "True" \/ run.status = 0) =>
               Range(intents_to_create) \subseteq agent.intents
        /\ run.failed => (run.result # "True" /\ run.status # 0)

banking_intents ==
    <<"banking.balance.check", "banking.transfer.money",
      "banking.transactions.view", "banking.card.block",
      "banking.card.activate", "banking.loan.check", "banking.loan.apply",
      "banking.account.open", "banking.account.close", "banking.bill.pay",
      "banking.statement.request", "banking.pin.change",
      "banking.dispute.transaction", "banking.interest.rates",
      "banking.atm.find">>

\* Runs of the script in a row
MaxRuns == 2

\* Provider calls that raise, over all the runs
MaxFailures == 2

\* The answers the provider may still give
Within(answers, failures) ==
    { answer \in answers : answer.raised => failures < MaxFailures }

\* The agents the script may find
AddAgents ==
    { [exists |-> TRUE, intents |-> {"Default Welcome Intent"}],
      [exists |-> TRUE,
       intents |-> {"Default Welcome Intent", "banking.balance.check",
                    "banking.atm.find"}],
      [exists |-> TRUE, intents |-> Range(banking_intents)] }

NoEarlierRun == [none |-> TRUE]

InitAdd ==
    /\ app = "add-banking-intents"
    /\ calls = [c \in Calls |-> Idle]
    /\ turn = [routed |-> NoTurn, failed |-> NoTurn]
    /\ hook = InitialHookState
    /\ probe = NoProbe
    /\ agent \in AddAgents
    /\ run = [script |-> "add-banking-intents", pc |-> "start", runs |-> 1,
              existing_names |-> {}, index |-> 1, created |-> 0,
              skipped |-> 0, issued |-> {}, failures |-> 0,
              result |-> "None", status |-> -1, first |-> NoEarlierRun]

\* if intent_data["display_name"] in existing_names
Skips_never(display_name, existing_names) == FALSE

Skips(display_name, existing_names) == display_name \in existing_names

\* Load credentials, create the clients, set the agent
SetAgent ==
    /\ run.script = "add-banking-intents"
    /\ run.pc = "start"
    /\ \E loaded \in Within(LoadCredentialsAnswers, run.failures) :
          IF loaded.raised
          THEN /\ run' = [Return(run, "False") EXCEPT !.failures = @ + 1]
               /\ UNCHANGED agent
          ELSE \E answer \in Within(SetAgentAnswers, run.failures) :
                  IF answer.raised
                  THEN /\ run' = [Return(run, "False") EXCEPT
                                      !.failures = @ + 1]
                       /\ UNCHANGED agent
                  ELSE /\ run' = [run EXCEPT !.pc = "list"]
                       /\ agent' = [agent EXCEPT !.exists = TRUE]
    /\ UNCHANGED <<app, calls, turn, hook, probe>>

\* existing_names = set of the display names the provider lists
ListExisting ==
    /\ run.script = "add-banking-intents"
    /\ run.pc = "list"
    /\ \E answer \in Within(ListIntentsAnswers(agent), run.failures) :
          run' = IF answer.raised
                 THEN [Return(run, "False") EXCEPT !.failures = @ + 1]
                 ELSE [run EXCEPT !.pc = "add",
                                  !.existing_names = agent.intents]
    /\ UNCHANGED <<app, calls, turn, hook, probe, agent>>

\* One pass of  for intent_data in banking_intents
AddIntent ==
    /\ run.script = "add-banking-intents"
    /\ run.pc = "add"
    /\ LET display_name == banking_intents[run.index]
           last == run.index = Len(banking_intents)
           next == [run EXCEPT !.index = IF last THEN @ ELSE @ + 1,
                               !.pc = IF last THEN "count" ELSE "add"]
       IN  IF Skips(display_name, run.existing_names)
           THEN /\ run' = [next EXCEPT !.skipped = @ + 1]
                /\ UNCHANGED agent
           ELSE \E answer \in Within(CreateIntentAnswers(agent, display_name),
                                     run.failures) :
                   /\ agent' = AfterCreate(agent, display_name, answer)
                   /\ run' = [next EXCEPT
                         !.issued = @ \cup {display_name},
                         !.created = IF answer.raised THEN @ ELSE @ + 1,
                         !.failures = IF answer.raised THEN @ + 1 ELSE @]
    /\ UNCHANGED <<app, calls, turn, hook, probe>>

\* Final count, print that the agent is ready, return True
FinalCount ==
    /\ run.script = "add-banking-intents"
    /\ run.pc = "count"
    /\ \E answer \in Within(ListIntentsAnswers(agent), run.failures) :
          run' = IF answer.raised
                 THEN [Return(run, "False") EXCEPT !.failures = @ + 1]
                 ELSE Return(run, "True")
    /\ UNCHANGED <<app, calls, turn, hook, probe, agent>>

\* success = add_all_banking_intents(); sys.exit(0 if success else 1)
ExitAdd ==
    /\ run.script = "add-banking-intents"
    /\ run.pc = "returned"
    /\ run' = [run EXCEPT !.pc = "exited",
                          !.status = IF run.result = "True" THEN 0 ELSE 1]
    /\ UNCHANGED <<app, calls, turn, hook, probe, agent>>

\* The script is started again on the agent the last run left
RunAgain ==
    /\ run.script = "add-banking-intents"
    /\ run.pc = "exited"
    /\ run.runs < MaxRuns
    /\ run' = [run EXCEPT
          !.pc = "start", !.runs = @ + 1, !.existing_names = {},
          !.index = 1, !.created = 0, !.skipped = 0, !.issued = {},
          !.result = "None", !.status = -1,
          !.first = IF run.runs = 1
                    THEN [intents |-> agent.intents,
                          created |-> run.created,
                          complete |-> /\ run.result = "True"
                                       /\ run.created = Cardinality(run.issued)]
                    ELSE @]
    /\ UNCHANGED <<app, calls, turn, hook, probe, agent>>

NextAdd ==
    \/ SetAgent
    \/ ListExisting
    \/ AddIntent
    \/ FinalCount
    \/ ExitAdd
    \/ RunAgain

SpecAdd == InitAdd /\ [][NextAdd]_vars

\* C27: add_all_banking_intents issues a create call only for display names
\* that were not in the agent when it listed the existing intents; after a
\* first run whose creates all succeeded, a second run skips all 15 intents,
\* creates none and leaves the agent's set of intents as the first run left
\* it.
SecondRunDone ==
    /\ run.script = "add-banking-intents"
    /\ run.runs = 2
    /\ run.pc \in {"returned", "exited"}
    /\ run.result = "True"
    /\ run.first.complete

C27_AddIsIdempotent ==
    /\ run.script = "add-banking-intents" => run.issued \cap run.existing_names = {}
    /\ SecondRunDone =>
          /\ run.skipped = Len(banking_intents)
          /\ run.skipped = 15
          /\ run.created = 0
          /\ run.issued = {}
          /\ agent.intents = run.first.intents

C27_Witness ==
    /\ SecondRunDone
    /\ run.first.created = 13
    /\ run.skipped = 15

(***************************************************************************)
(* enhance_training.py: add_training_phrases then enhance_entities         *)
(*                                                                         *)
(* Here the agent stores, for each intent, its list of training phrases    *)
(* and, for each entity type, its list of entities.                        *)
(***************************************************************************)
additional_training ==
    ( "account.balance" :>
        <<"How much do I have in my account",
          "Account balance please",
          "Show me how much money I have",
          "What's my available balance",
          "Current balance",
          "Check funds",
          "Available funds",
          "Balance inquiry",
          "How much money is in my bank account",
          "Can you tell me my account balance",
          "I want to see my balance",
          "Display my current balance">>
    @@ "payment.transfer" :>
        <<"Send payment",
          "Make a transfer",
          "Move money",
          "Transfer between accounts",
          "Send funds",
          "Pay someone",
          "Transfer cash",
          "Wire transfer",
          "Electronic transfer",
          "Bank transfer",
          "Move funds",
          "Send money electronically">>
    @@ "card.block" :>
        <<"Stop my card",
          "Deactivate card",
          "Turn off my card",
          "Secure my card",
          "Freeze card",
          "Put hold on card",
          "Card security",
          "Emergency stop",
          "Disable my card",
          "Lock my card",
          "Suspend card",
          "Cancel my card temporarily">>
    @@ "transaction.history" :>
        <<"Show my recent activity",
          "What transactions did I make",
          "Account activity",
          "Recent purchases",
          "Transaction log",
          "Spending history",
          "Payment history",
          "Account movements",
          "Financial activity",
          "Recent charges">>
    @@ "payment.bill" :>
        <<"Pay utility bill",
          "Make bill payment",
          "Pay monthly bills",
          "Utility payment",
          "Pay service provider",
          "Bill pay",
          "Monthly payments",
          "Service payments",
          "Pay my bills online",
          "Electronic bill payment">>
    @@ "dispute.create" :>
        <<"Challenge this transaction",
          "This is not my charge",
          "Incorrect transaction",
          "Wrong amount charged",
          "Unauthorized charge",
          "I didn't authorize this",
          "Contest this payment",
          "Report wrong transaction",
          "This charge is incorrect",
          "File transaction complaint">>
    @@ "fraud.report" :>
        <<"Account security breach",
          "Suspicious account activity",
          "Identity theft report",
          "Unauthorized access",
          "Security incident",
          "Account hacked",
          "Fraudulent charges",
          "Security violation",
          "Compromised account",
          "Report security issue">>
    @@ "auth.login" :>
        <<"Access my account",
          "Sign into banking",
          "Authenticate me",
          "Verify my identity",
          "Login to online banking",
          "Account access",
          "Banking login",
          "Secure login",
          "Account signin",
          "User authentication">> )

entity_enhancements ==
    ( "account-type" :>
        <<[value |-> "checking",
           synonyms |-> <<"checking", "current", "chequing", "primary", "main", "everyday">>],
          [value |-> "savings",
           synonyms |-> <<"savings", "save", "saving", "deposit", "savings account", "interest">>],
          [value |-> "credit",
           synonyms |-> <<"credit", "credit card", "cc", "visa", "mastercard", "amex", "credit line">>],
          [value |-> "business",
           synonyms |-> <<"business", "commercial", "corporate", "company", "enterprise", "business account">>]>>
    @@ "card-type" :>
        <<[value |-> "credit",
           synonyms |-> <<"credit", "credit card", "cc", "visa", "mastercard", "amex", "american express">>],
          [value |-> "debit",
           synonyms |-> <<"debit", "debit card", "bank card", "atm card", "check card", "pin card">>],
          [value |-> "prepaid",
           synonyms |-> <<"prepaid", "gift card", "prepaid card", "stored value", "reloadable">>]>>
    @@ "bill-type" :>
        <<[value |-> "electricity",
           synonyms |-> <<"electricity", "electric", "power", "electric bill", "utility", "energy">>],
          [value |-> "water",
           synonyms |-> <<"water", "water bill", "utilities", "municipal", "sewer", "water service">>],
          [value |-> "gas",
           synonyms |-> <<"gas", "natural gas", "heating", "gas bill", "propane", "energy">>],
          [value |-> "internet",
           synonyms |-> <<"internet", "broadband", "wifi", "web", "isp", "fiber">>],
          [value |-> "phone",
           synonyms |-> <<"phone", "mobile", "cell", "telephone", "cellular", "wireless">>],
          [value |-> "rent",
           synonyms |-> <<"rent", "rental", "lease", "housing", "apartment", "mortgage">>],
          [value |-> "insurance",
           synonyms |-> <<"insurance", "policy", "coverage", "premium", "health", "auto", "life">>]>> )

\* The agents the script may find
EnhanceAgents ==
    { [exists |-> TRUE,
       intents |-> ( "account.balance" :> <<"What is my balance">>
                  @@ "card.block" :> <<"Block my card", "Freeze my card">>
                  @@ "Default Welcome Intent" :> <<"hi">> ),
       entity_types |->
           ( "account-type" :>
                <<[value |-> "checking", synonyms |-> <<"checking">>]>>
          @@ "date-period" :>
                <<[value |-> "today", synonyms |-> <<"today">>]>> )],
      [exists |-> TRUE,
       intents |-> ( "Default Welcome Intent" :> <<"hi">>
                  @@ "auth.login" :> <<>> ),
       entity_types |->
           ( "merchant" :>
                <<[value |-> "grocer", synonyms |-> <<"grocer">>]>> )] }

\* What list_intents carries of an intent: all its fields, or the fields
\* other than the training phrases
Listings == {"full", "names"}

ListedIntents(stored, listing) ==
    [name \in DOMAIN stored.intents |->
        IF listing = "full" THEN stored.intents[name] ELSE <<>>]

\* client.list_entity_types: the listing of an agent that exists
ListEntityTypesAnswers(stored) == ListIntentsAnswers(stored)

\* client.update_intent / client.update_entity_type
UpdateAnswers == { Answered, Raised(PermissionDenied) }

\* for phrase_text in additional_training[intent_name]:
\*     intent.training_phrases.append(...)
Enhanced(training_phrases, intent_name) ==
    training_phrases \o additional_training[intent_name]

\* entity_type.entities.clear(), then one append per entity of the table
Replaced(entities, entity_name) ==
    SubSeq(entities, 1, 0) \o entity_enhancements[entity_name]

InitEnhance ==
    /\ app = "enhance_training"
    /\ calls = [c \in Calls |-> Idle]
    /\ turn = [routed |-> NoTurn, failed |-> NoTurn]
    /\ hook = InitialHookState
    /\ probe = NoProbe
    /\ agent \in EnhanceAgents
    /\ \E listing \in Listings :
          run = [script |-> "enhance_training", pc |-> "intents", runs |-> 1,
                 listing |-> listing, pending |-> {}, listed |-> <<>>,
                 updated_intents |-> {}, updated_entity_types |-> {},
                 failures |-> 0, status |-> -1, once |-> NoEarlierRun]

\* intents = client.list_intents(...), outside any try
ListIntents ==
    /\ run.script = "enhance_training"
    /\ run.pc = "intents"
    /\ \E answer \in Within(ListIntentsAnswers(agent), run.failures) :
          run' = IF answer.raised
                 THEN [run EXCEPT !.pc = "exited", !.status = 1,
                                  !.failures = @ + 1]
                 ELSE [run EXCEPT !.pc = "phrases",
                                  !.pending = DOMAIN agent.intents,
                                  !.listed = ListedIntents(agent, run.listing)]
    /\ UNCHANGED <<app, calls, turn, hook, probe, agent>>

\* One pass of  for intent in intents
EnhanceIntent ==
    /\ run.script = "enhance_training"
    /\ run.pc = "phrases"
    /\ \E intent_name \in run.pending :
          LET rest == run.pending \ {intent_name}
              next == [run EXCEPT !.pending = rest,
                                  !.pc = IF rest = {} THEN "entities"
                                         ELSE "phrases"]
          IN  IF intent_name \in DOMAIN additional_training
              THEN \E answer \in Within(UpdateAnswers, run.failures) :
                      /\ run' = [next EXCEPT
                            !.updated_intents = @ \cup {intent_name},
                            !.failures = IF answer.raised THEN @ + 1 ELSE @]
                      /\ agent' =
                            IF answer.raised THEN agent
                            ELSE [agent EXCEPT !.intents[intent_name] =
                                      Enhanced(run.listed[intent_name],
                                               intent_name)]
              ELSE /\ run' = next
                   /\ UNCHANGED agent
    /\ UNCHANGED <<app, calls, turn, hook, probe>>

\* entity_types = client.list_entity_types(...), inside the try
ListEntityTypes ==
    /\ run.script = "enhance_training"
    /\ run.pc = "entities"
    /\ \E answer \in Within(ListEntityTypesAnswers(agent), run.failures) :
          run' = IF answer.raised
                 THEN [run EXCEPT !.pc = "exited", !.status = 0,
                                  !.failures = @ + 1]
                 ELSE IF DOMAIN agent.entity_types = {}
                 THEN [run EXCEPT !.pc = "exited", !.status = 0]
                 ELSE [run EXCEPT !.pc = "synonyms",
                                  !.pending = DOMAIN agent.entity_types]
    /\ UNCHANGED <<app, calls, turn, hook, probe, agent>>

\* One pass of  for entity_type in entity_types; after the last one main
\* prints that the enhancement is complete
EnhanceEntityType ==
    /\ run.script = "enhance_training"
    /\ run.pc = "synonyms"
    /\ \E entity_name \in run.pending :
          LET rest == run.pending \ {entity_name}
              next == [run EXCEPT !.pending = rest,
                                  !.pc = IF rest = {} THEN "exited"
                                         ELSE "synonyms",
                                  !.status = IF rest = {} THEN 0 ELSE @]
          IN  IF entity_name \in DOMAIN entity_enhancements
              THEN \E answer \in Within(UpdateAnswers, run.failures) :
                      /\ run' = [next EXCEPT
                            !.updated_entity_types = @ \cup {entity_name},
                            !.failures = IF answer.raised THEN @ + 1 ELSE @]
                      /\ agent' =
                            IF answer.raised THEN agent
                            ELSE [agent EXCEPT !.entity_types[entity_name] =
                                      Replaced(@, entity_name)]
              ELSE /\ run' = next
                   /\ UNCHANGED agent
    /\ UNCHANGED <<app, calls, turn, hook, probe>>

\* The script is started again on the agent the last run left
EnhanceAgain ==
    /\ run.script = "enhance_training"
    /\ run.pc = "exited"
    /\ run.runs < MaxRuns
    /\ run' = [run EXCEPT
          !.pc = "intents", !.runs = @ + 1, !.pending = {}, !.listed = <<>>,
          !.status = -1,
          !.once = IF run.runs = 1
                   THEN [intents |-> agent.intents,
                         entity_types |-> agent.entity_types,
                         complete |-> run.status = 0 /\ run.failures = 0]
                   ELSE @]
    /\ UNCHANGED <<app, calls, turn, hook, probe, agent>>

NextEnhance ==
    \/ ListIntents
    \/ EnhanceIntent
    \/ ListEntityTypes
    \/ EnhanceEntityType
    \/ EnhanceAgain

SpecEnhance == InitEnhance /\ [][NextEnhance]_vars

\* C28: running the training enhancement twice in a row leaves every
\* intent's training phrases and every entity type's entries as one run left
\* them, and intents and entity types that the enhancement tables do not
\* name receive no update call.
EnhancedTwice ==
    /\ run.script = "enhance_training"
    /\ run.runs = 2
    /\ run.pc = "exited"
    /\ run.status = 0
    /\ run.failures = 0
    /\ run.once.complete

C28_EnhanceIsIdempotent ==
    /\ EnhancedTwice =>
          /\ agent.intents = run.once.intents
          /\ agent.entity_types = run.once.entity_types
    /\ run.script = "enhance_training" =>
          /\ run.updated_intents \subseteq DOMAIN additional_training
          /\ run.updated_entity_types \subseteq DOMAIN entity_enhancements

(***************************************************************************)
(* deploy-dialogflow-agent.py (DialogFlowDeployer) and                     *)
(* upload_dialogflow.py (main): entity types, then intents                 *)
(*                                                                         *)
(* Here the agent stores the display names of its entity types and of its  *)
(* intents; run.log is the sequence of create calls issued so far.         *)
(***************************************************************************)
entity_types_data ==
    <<"account_type", "transaction_type", "time_period", "card_type",
      "loan_type">>

intents_data ==
    <<"check.balance", "view.transactions", "transfer.money", "pay.bill",
      "open.account", "close.account", "apply.loan", "check.loan.status",
      "activate.card", "block.card", "request.new.card", "request.statement",
      "find.atm.branch", "dispute.transaction", "setup.alerts", "change.pin",
      "check.interest.rates", "update.contact.info", "setup.direct.deposit",
      "stop.payment">>

\* deploy(): create_entity_types() then create_intents(entity_types);
\* main(): "Create entities first", then "Create intents"
Phases_intentsFirst == <<"intents", "entity_types">>

Phases == <<"entity_types", "intents">>

AfterPhase(phase) == IF phase = Phases[1] THEN Phases[2] ELSE "exited"

\* entity_types_client.create_entity_type
CreateEntityTypeAnswers(stored, display_name) ==
    { Raised(PermissionDenied) }
        \cup (IF display_name \in stored.entity_types
              THEN { Raised(AlreadyExistsError) } ELSE { Answered })

\* intents_client.create_intent on an agent that exists
DeployIntentAnswers(stored, display_name) ==
    { answer \in CreateIntentAnswers(stored, display_name) :
          answer.raised => answer.message # NotFoundError }

CreateCall(kind, display_name, answer) ==
    [kind |-> kind, display_name |-> display_name, raised |-> answer.raised]

\* The files of ./config/entities and ./config/intents
JsonFile(displayName) ==
    [filename |-> <<displayName, "json">>,
     data |-> [valid |-> TRUE, displayName |-> displayName]]

MalformedFile(stem) ==
    [filename |-> <<stem, "json">>, data |-> [valid |-> FALSE]]

OtherFile == [filename |-> <<"README", "md">>, data |-> [valid |-> FALSE]]

\* filename.endswith('.json')
EndsWithJson(filename) == filename[Len(filename)] = "json"

EntityDirs ==
    { {},
      { JsonFile("account-type"), JsonFile("bill-type"), OtherFile },
      { JsonFile("card-type"), MalformedFile("draft") } }

IntentDirs ==
    { { JsonFile("account.balance"), JsonFile("card.block"),
        JsonFile("auth.login"), OtherFile },
      { JsonFile("payment.transfer"), MalformedFile("draft") } }

\* The agents the scripts may find
DeployAgents ==
    { [exists |-> TRUE, entity_types |-> {}, intents |-> {}],
      [exists |-> TRUE, entity_types |-> {"card_type", "card-type"},
       intents |-> {"check.balance", "card.block"}] }

InitDeploy ==
    /\ app \in {"deploy-dialogflow-agent", "upload_dialogflow"}
    /\ calls = [c \in Calls |-> Idle]
    /\ turn = [routed |-> NoTurn, failed |-> NoTurn]
    /\ hook = InitialHookState
    /\ probe = NoProbe
    /\ agent \in DeployAgents
    /\ \/ /\ app = "deploy-dialogflow-agent"
          /\ \E project_id \in BOOLEAN :
                run = [script |-> "deploy-dialogflow-agent", pc |-> "start",
                       project_id |-> project_id, index |-> 1,
                       created_entities |-> {}, created_count |-> 0,
                       log |-> <<>>, failures |-> 0, status |-> -1]
       \/ /\ app = "upload_dialogflow"
          /\ \E entities \in EntityDirs, intents \in IntentDirs :
                run = [script |-> "upload_dialogflow", pc |-> "start",
                       entities_dir |-> entities, intents_dir |-> intents,
                       pending |-> {}, log |-> <<>>, failures |-> 0,
                       status |-> -1]

Exit(frame, status) == [frame EXCEPT !.pc = "exited", !.status = status]

\* main(): PROJECT_ID, DialogFlowDeployer(PROJECT_ID), deployer.deploy()
DeployMain ==
    /\ run.script = "deploy-dialogflow-agent"
    /\ run.pc = "start"
    /\ \E clients \in Within({Answered, Raised(InvalidKeyFile)},
                             run.failures) :
          run' = IF ~run.project_id THEN Exit(run, 1)
                 ELSE IF clients.raised
                 THEN [Exit(run, 1) EXCEPT !.failures = @ + 1]
                 ELSE [run EXCEPT !.pc = Phases[1]]
    /\ UNCHANGED <<app, calls, turn, hook, probe, agent>>

\* One pass of  for entity_data in entity_types_data
DeployCreateEntityType ==
    /\ run.script = "deploy-dialogflow-agent"
    /\ run.pc = "entity_types"
    /\ LET display_name == entity_types_data[run.index]
           last == run.index = Len(entity_types_data)
       IN  \E answer \in Within(CreateEntityTypeAnswers(agent, display_name),
                                run.failures) :
              /\ agent' = IF answer.raised THEN agent
                          ELSE [agent EXCEPT
                                    !.entity_types = @ \cup {display_name}]
              /\ run' = [run EXCEPT
                    !.log = Append(@, CreateCall("entity_type", display_name,
                                                 answer)),
                    !.created_entities =
                        IF answer.raised THEN @ ELSE @ \cup {display_name},
                    !.failures = IF answer.raised THEN @ + 1 ELSE @,
                    !.index = IF last THEN 1 ELSE @ + 1,
                    !.pc = IF last THEN AfterPhase("entity_types") ELSE @,
                    !.status = IF last /\ AfterPhase("entity_types") = "exited"
                               THEN 0 ELSE @]
    /\ UNCHANGED <<app, calls, turn, hook, probe>>

\* One pass of  for intent_data in intents_data; after both phases deploy
\* prints that the deployment is complete
DeployCreateIntent ==
    /\ run.script = "deploy-dialogflow-agent"
    /\ run.pc = "intents"
    /\ LET display_name == intents_data[run.index]
           last == run.index = Len(intents_data)
       IN  \E answer \in Within(DeployIntentAnswers(agent, display_name),
                                run.failures) :
              /\ agent' = AfterCreate(agent, display_name, answer)
              /\ run' = [run EXCEPT
                    !.log = Append(@, CreateCall("intent", display_name,
                                                 answer)),
                    !.created_count = IF answer.raised THEN @ ELSE @ + 1,
                    !.failures = IF answer.raised THEN @ + 1 ELSE @,
                    !.index = IF last THEN 1 ELSE @ + 1,
                    !.pc = IF last THEN AfterPhase("intents") ELSE @,
                    !.status = IF last /\ AfterPhase("intents") = "exited"
                               THEN 0 ELSE @]
    /\ UNCHANGED <<app, calls, turn, hook, probe>>

Listdir(frame, phase) ==
    IF phase = "entity_types" THEN frame.entities_dir
    ELSE IF phase = "intents" THEN frame.intents_dir
    ELSE {}

\* main(): the first directory is listed
UploadMain ==
    /\ run.script = "upload_dialogflow"
    /\ run.pc = "start"
    /\ run' = [run EXCEPT !.pc = Phases[1],
                          !.pending = Listdir(run, Phases[1])]
    /\ UNCHANGED <<app, calls, turn, hook, probe, agent>>

\* The directory is done: the next one is listed, or main prints that the
\* setup is complete
UploadNextDir ==
    /\ run.script = "upload_dialogflow"
    /\ run.pc \in {"entity_types", "intents"}
    /\ run.pending = {}
    /\ LET next == AfterPhase(run.pc)
       IN  run' = [run EXCEPT !.pc = next,
                              !.pending = Listdir(run, next),
                              !.status = IF next = "exited" THEN 0 ELSE @]
    /\ UNCHANGED <<app, calls, turn, hook, probe, agent>>

\* One pass of  for filename in os.listdir(entities_dir): json.load and
\* create_entity_type(project_id, entity_data).  Only the create call is
\* inside a try.
UploadCreateEntityType ==
    /\ run.script = "upload_dialogflow"
    /\ run.pc = "entity_types"
    /\ \E file \in run.pending :
          LET next == [run EXCEPT !.pending = @ \ {file}]
          IN  IF ~EndsWithJson(file.filename)
              THEN /\ run' = next
                   /\ UNCHANGED agent
              ELSE IF ~file.data.valid
              THEN /\ run' = Exit(next, 1)
                   /\ UNCHANGED agent
              ELSE \E answer \in
                       Within(CreateEntityTypeAnswers(agent,
                                  file.data.displayName), run.failures) :
                      /\ agent' =
                            IF answer.raised THEN agent
                            ELSE [agent EXCEPT !.entity_types =
                                      @ \cup {file.data.displayName}]
                      /\ run' = [next EXCEPT
                            !.log = Append(@, CreateCall("entity_type",
                                        file.data.displayName, answer)),
                            !.failures = IF answer.raised THEN @ + 1 ELSE @]
    /\ UNCHANGED <<app, calls, turn, hook, probe>>

\* One pass of  for filename in os.listdir(intents_dir): json.load and
\* create_intent(project_id, intent_data)
UploadCreateIntent ==
    /\ run.script = "upload_dialogflow"
    /\ run.pc = "intents"
    /\ \E file \in run.pending :
          LET next == [run EXCEPT !.pending = @ \ {file}]
          IN  IF ~EndsWithJson(file.filename)
              THEN /\ run' = next
                   /\ UNCHANGED agent
              ELSE IF ~file.data.valid
              THEN /\ run' = Exit(next, 1)
                   /\ UNCHANGED agent
              ELSE \E answer \in
                       Within(DeployIntentAnswers(agent,
                                  file.data.displayName), run.failures) :
                      /\ agent' = AfterCreate(agent, file.data.displayName,
                                              answer)
                      /\ run' = [next EXCEPT
                            !.log = Append(@, CreateCall("intent",
                                        file.data.displayName, answer)),
                            !.failures = IF answer.raised THEN @ + 1 ELSE @]
    /\ UNCHANGED <<app, calls, turn, hook, probe>>

NextDeploy ==
    \/ DeployMain
    \/ DeployCreateEntityType
    \/ DeployCreateIntent
    \/ UploadMain
    \/ UploadNextDir
    \/ UploadCreateEntityType
    \/ UploadCreateIntent

SpecDeploy == InitDeploy /\ [][NextDeploy]_vars

\* C29: in the upload and deployment scripts every entity-type create call
\* is issued before the first intent create call, and a create call that
\* fails does not stop the remaining create calls from being issued.
Provisioning == run.script \in {"deploy-dialogflow-agent", "upload_dialogflow"}

Issued(kind) ==
    { run.log[i].display_name :
          i \in { j \in 1..Len(run.log) : run.log[j].kind = kind } }

JsonNames(dir) ==
    { file.data.displayName :
          file \in { f \in dir : EndsWithJson(f.filename) /\ f.data.valid } }

ToIssue(kind) ==
    IF run.script = "deploy-dialogflow-agent"
    THEN (IF kind = "entity_type" THEN Range(entity_types_data)
          ELSE Range(intents_data))
    ELSE (IF kind = "entity_type" THEN JsonNames(run.entities_dir)
          ELSE JsonNames(run.intents_dir))

EntityTypesFirst ==
    \A i, j \in 1..Len(run.log) :
        (run.log[i].kind = "intent" /\ run.log[j].kind = "entity_type")
            => j < i

C29_EntityTypesFirstAndNoStop ==
    /\ [](Provisioning => EntityTypesFirst)
    /\ []((Provisioning /\ run.pc = "exited" /\ run.status = 0) =>
              /\ Issued("entity_type") = ToIssue("entity_type")
              /\ Issued("intent") = ToIssue("intent"))
    /\ [][(/\ Provisioning
           /\ Len(run'.log) > Len(run.log)
           /\ run'.log[Len(run'.log)].raised)
              => run'.status # 1]_vars

C29_Witness ==
    /\ Provisioning
    /\ run.pc = "exited"
    /\ run.status = 0
    /\ \E i, j \in 1..Len(run.log) :
          /\ run.log[i].kind = "entity_type"
          /\ run.log[i].raised
          /\ run.log[j].kind = "intent"
          /\ run.log[j].raised
    /\ Issued("intent") = ToIssue("intent")

(***************************************************************************)
(* test_dialogflow.py: DialogFlowTester.run_comprehensive_tests            *)
(***************************************************************************)
test_cases ==
    <<<<"I want to log in", "auth.login">>,
      <<"Please sign me in", "auth.login">>,
      <<"I need to authenticate", "auth.login">>,
      <<"What's my account balance", "account.balance">>,
      <<"Show me my balance", "account.balance">>,
      <<"How much money do I have in my checking account",
        "account.balance">>,
      <<"Balance for account 12345", "account.balance">>,
      <<"Show me my transaction history", "transaction.history">>,
      <<"What are my recent transactions", "transaction.history">>,
      <<"Transaction history for last month", "transaction.history">>,
      <<"Transfer $100 to John", "payment.transfer">>,
      <<"Send money to Jane", "payment.transfer">>,
      <<"I want to transfer $50 to my friend", "payment.transfer">>,
      <<"Move $200 from checking to savings", "payment.transfer">>,
      <<"Pay my electricity bill", "payment.bill">>,
      <<"I want to pay my internet bill", "payment.bill">>,
      <<"Pay $150 for water bill", "payment.bill">>,
      <<"What's the status of my card", "card.status">>,
      <<"Check my credit card status", "card.status">>,
      <<"Is my debit card active", "card.status">>,
      <<"Block my card", "card.block">>,
      <<"My card is lost, please block it", "card.block">>,
      <<"I want to freeze my credit card", "card.block">>,
      <<"I want to dispute a transaction", "dispute.create">>,
      <<"This charge is wrong", "dispute.create">>,
      <<"File a dispute for $50 charge", "dispute.create">>,
      <<"I want to report fraud", "fraud.report">>,
      <<"My account has been compromised", "fraud.report">>,
      <<"Someone used my card without permission", "fraud.report">>,
      <<"I need my account statement", "account.statement">>,
      <<"Send me my monthly statement", "account.statement">>,
      <<"Download statement for January", "account.statement">>,
      <<"Hello", "general.greeting">>,
      <<"Help", "general.help">>,
      <<"What can you do", "general.help">>>>

\* session_client.detect_intent for a phrase: the expected intent, another
\* intent, or an exception
DetectIntentAnswers(expected_intent) ==
    { [raised |-> FALSE, display_name |-> expected_intent],
      [raised |-> FALSE, display_name |-> "Default Fallback Intent"],
      Raised(<<"503", "UNAVAILABLE">>) }

\* result.get(key, default)
Get(result, key, default) ==
    IF key \in DOMAIN result THEN result[key] ELSE default

\* DialogFlowTester.test_intent(test_phrase, expected_intent) when the
\* provider gives this answer
test_intent(test_phrase, expected_intent, answer) ==
    IF answer.raised
    THEN [input |-> test_phrase, error |-> answer.message,
          success |-> FALSE]
    ELSE IF expected_intent # ""
    THEN [input |-> test_phrase, detected_intent |-> answer.display_name,
          success |-> TRUE, expected_intent |-> expected_intent,
          intent_match |-> answer.display_name = expected_intent]
    ELSE [input |-> test_phrase, detected_intent |-> answer.display_name,
          success |-> TRUE]

\* if result['success']: if result.get('intent_match', True): passed += 1
Passes_success(result) == result.success

Passes(result) == result.success /\ Get(result, "intent_match", TRUE)

InitTest ==
    /\ app = "test_dialogflow"
    /\ calls = [c \in Calls |-> Idle]
    /\ turn = [routed |-> NoTurn, failed |-> NoTurn]
    /\ hook = InitialHookState
    /\ probe = NoProbe
    /\ agent = [exists |-> TRUE]
    /\ run = [script |-> "test_dialogflow", pc |-> "testing", index |-> 1,
              results |-> <<>>, passed |-> 0, failed |-> 0]

\* One pass of  for test_phrase, expected_intent in test_cases
TestCase ==
    /\ run.script = "test_dialogflow"
    /\ run.pc = "testing"
    /\ LET test_phrase == test_cases[run.index][1]
           expected_intent == test_cases[run.index][2]
       IN  \E answer \in DetectIntentAnswers(expected_intent) :
              LET result == test_intent(test_phrase, expected_intent, answer)
              IN  /\ Passes(result) \/ run.failed < MaxFailures
                  /\ run' = [run EXCEPT
                        !.results = Append(@, result),
                        !.passed = IF Passes(result) THEN @ + 1 ELSE @,
                        !.failed = IF Passes(result) THEN @ ELSE @ + 1,
                        !.index = @ + 1,
                        !.pc = IF run.index = Len(test_cases)
                               THEN "summary" ELSE @]
    /\ UNCHANGED <<app, calls, turn, hook, probe, agent>>

\* The summary is printed and the results are returned
Summary ==
    /\ run.script = "test_dialogflow"
    /\ run.pc = "summary"
    /\ run' = [run EXCEPT !.pc = "returned"]
    /\ UNCHANGED <<app, calls, turn, hook, probe, agent>>

NextTest ==
    \/ TestCase
    \/ Summary

SpecTest == InitTest /\ [][NextTest]_vars

\* C30: run_comprehensive_tests produces one result per test case, in
\* order, whatever the provider answers: an exception is recorded as a
\* failed result and the later cases still run, passed + failed is the
\* number of cases, and a case is passed only when the call succeeded and
\* the detected intent is the expected one.
Matched ==
    { i \in 1..Len(run.results) :
          /\ run.results[i].success
          /\ run.results[i].detected_intent = test_cases[i][2] }

C30_OneResultPerCase ==
    run.script = "test_dialogflow" =>
        /\ Len(run.results) = run.index - 1
        /\ \A i \in 1..Len(run.results) :
              /\ run.results[i].input = test_cases[i][1]
              /\ run.results[i].success \/ "error" \in DOMAIN run.results[i]
        /\ run.passed + run.failed = Len(run.results)
        /\ run.passed = Cardinality(Matched)
        /\ run.pc \in {"summary", "returned"} =>
              /\ Len(run.results) = Len(test_cases)
              /\ run.passed + run.failed = 35

C30_Witness ==
    /\ run.script = "test_dialogflow"
    /\ run.pc = "returned"
    /\ ~run.results[1].success
    /\ run.results[2].success
    /\ ~run.results[2].intent_match
    /\ run.results[35].success
    /\ run.passed = 33
    /\ run.failed = 2

====
